---- MODULE Spec2Model ----
(***************************************************************************)
(* Account pool, selector, dispatcher and admin surface of the Warp proxy  *)
(* (core/account_manager.py, core/warp_client.py, server.py).              *)
(*                                                                         *)
(* Time is counted in ticks of 30 minutes from 1 January of year 0.  A     *)
(* month lasts MonthLen ticks, a year has 12 months.  Account objects live *)
(* in a heap (objs) because POST /accounts/reload builds new Account       *)
(* objects while requests in flight keep the old ones.                     *)
(***************************************************************************)
EXTENDS Integers, Sequences, FiniteSets, TLC

\* ---------------------------------------------------------------- bounds
MaxRequests == 2
NumToolResults == 2
MaxPicks == 5
MaxEvents == 3

\* ------------------------------------------------------ program constants
MaxRetries == 3
DefaultRetry429Interval == 2
ExpiresIn == 2
MonthLen == 2
MonthsPerYear == 12
StartNow == (10 * MonthLen) + 1

NoTime == 0 - 1
NoAcct == 0
IndexErr == 0 - 1

\* "c/d" and "c_d" are two names that safe_name maps to one file stem
Names == {"a", "b403", "c_d", "c/d"}
Strategies == {"round-robin", "random", "least-used", "quota-aware"}

VARIABLES objs, pool, current_index, files, pendingSaves, now, reqs,
          batch, settings, budget, sse

vars == <<objs, pool, current_index, files, pendingSaves, now, reqs,
          batch, settings, budget, sse>>

Range(s) == {s[i] : i \in DOMAIN s}

Max(a, b) == IF a >= b THEN a ELSE b

\* ------------------------------------------------------------------ time
Month(t) == ((t \div MonthLen) % MonthsPerYear) + 1
Year(t) == t \div (MonthLen * MonthsPerYear)
DateTime(y, m) == ((y * MonthsPerYear) + (m - 1)) * MonthLen

\* next_reset of Account.mark_quota_exceeded
NextReset(t) ==
    IF Month(t) = 12 THEN DateTime(Year(t) + 1, 1)
    ELSE DateTime(Year(t), Month(t) + 1)

\* --------------------------------------------------------------- Account
\* Account.__init__: durable fields from the arguments, volatile fields reset
Account(name, refresh, enabled, status_code, last_refreshed, last_attempt) ==
    [name |-> name, refresh_token |-> refresh, enabled |-> enabled,
     status_code |-> status_code,
     last_refreshed |-> last_refreshed, last_attempt |-> last_attempt,
     jwt_expires_at |-> NoTime, is_logged_in |-> FALSE,
     quota_limit |-> 0, quota_used |-> 0, quota_reset_date |-> NoTime,
     request_count |-> 0, error_count |-> 0,
     retry_429_interval |-> DefaultRetry429Interval]

\* a heap cell no request, batch, save task or pool refers to
FreeCell == Account("", "none", FALSE, "none", NoTime, NoTime)

is_jwt_expired(a, t) ==
    \/ a.jwt_expires_at = NoTime
    \/ t >= a.jwt_expires_at

\* Account.is_available: the result and the account after the lazy recovery
is_available(a, t) ==
    IF ~a.enabled THEN [ok |-> FALSE, acc |-> a]
    ELSE
      LET a1 == IF /\ a.status_code = "quota_exceeded"
                   /\ a.quota_reset_date # NoTime
                   /\ t >= a.quota_reset_date
                THEN [a EXCEPT !.status_code = "none", !.quota_used = 0,
                               !.quota_reset_date = NoTime]
                ELSE a
      IN  IF a1.status_code = "none" THEN [ok |-> TRUE, acc |-> a1]
          ELSE IF a1.status_code = "403" THEN [ok |-> FALSE, acc |-> a1]
          ELSE IF a1.status_code = "429" THEN
                 IF a1.last_attempt # NoTime THEN
                    IF t - a1.last_attempt >= a1.retry_429_interval
                    THEN [ok |-> TRUE,
                          acc |-> [a1 EXCEPT !.status_code = "none",
                                             !.last_attempt = NoTime]]
                    ELSE [ok |-> FALSE, acc |-> a1]
                 ELSE [ok |-> TRUE, acc |-> [a1 EXCEPT !.status_code = "none"]]
          ELSE IF a1.status_code = "quota_exceeded"
               THEN [ok |-> FALSE, acc |-> a1]
          ELSE [ok |-> TRUE, acc |-> a1]

should_refresh_token(a, t) ==
    IF ~a.enabled THEN FALSE
    ELSE IF a.jwt_expires_at # NoTime /\ t < a.jwt_expires_at THEN FALSE
    ELSE TRUE

get_quota_remaining(a) == Max(0, a.quota_limit - a.quota_used)

\* a mark_used that counts one upstream answer twice
mark_used_twice(a) ==
    [a EXCEPT !.request_count = @ + 2, !.quota_used = @ + 2]

mark_used(a) ==
    [a EXCEPT !.request_count = @ + 1, !.quota_used = @ + 1]

mark_error(a) == [a EXCEPT !.error_count = @ + 1]

\* Account.mark_blocked without its save task (the actions schedule it)
mark_blocked(a, code, t) ==
    [a EXCEPT !.status_code = code, !.last_attempt = t]

mark_quota_exceeded(a, t) ==
    [a EXCEPT !.status_code = "quota_exceeded",
              !.quota_reset_date = NextReset(t)]

mark_token_refreshed(a, t) == [a EXCEPT !.last_refreshed = t]

\* a to_config_dict that leaves last_attempt out
to_config_dict_no_attempt(a) ==
    [name |-> a.name, refresh_token |-> a.refresh_token,
     enabled |-> a.enabled, status_code |-> a.status_code,
     last_refreshed |-> a.last_refreshed, last_attempt |-> NoTime]

\* Account.to_config_dict: the durable subset; an absent key is the sentinel
to_config_dict(a) ==
    [name |-> a.name, refresh_token |-> a.refresh_token,
     enabled |-> a.enabled, status_code |-> a.status_code,
     last_refreshed |-> a.last_refreshed, last_attempt |-> a.last_attempt]

\* ----------------------------------------------------------------- files
NoFile == [name |-> "", refresh_token |-> "none", enabled |-> FALSE,
           status_code |-> "none", last_refreshed |-> NoTime,
           last_attempt |-> NoTime]

\* safe_name of save_account / delete_account_file: "/" and "\" become "_"
safe_name(name) == IF name = "c/d" THEN "c_d" ELSE name

\* AccountManager.save_account with auto_save on and accounts_dir set
save_account(fs, a) == [fs EXCEPT ![safe_name(a.name)] = to_config_dict(a)]

delete_account_file(fs, name) == [fs EXCEPT ![safe_name(name)] = NoFile]

\* sorted(accounts_path.glob("*.json")): the file stems in lexicographic order
SortedStems == <<"a", "b403", "c_d">>

ExistingStems(fs) == SelectSeq(SortedStems, LAMBDA k : fs[k] # NoFile)

\* load_accounts_from_directory: one Account per file, in sorted order
LoadedAccount(f) ==
    Account(f.name, f.refresh_token, f.enabled, f.status_code,
            f.last_refreshed, f.last_attempt)

\* AccountManager.__init__ gives every loaded account the configured interval
WithInterval(a, interval) == [a EXCEPT !.retry_429_interval = interval]

\* -------------------------------------------------------------- selector
\* the accounts after one is_available() call on every pool member
QueryAll(os, pl, t) ==
    [o \in DOMAIN os |->
        IF o \in Range(pl) THEN is_available(os[o], t).acc ELSE os[o]]

\* [acc for acc in self.accounts if acc.is_available()]
AvailableList(os, pl, t) ==
    SelectSeq(pl, LAMBDA o : is_available(os[o], t).ok)

\* AccountManager._round_robin, from attempt number attempts on
RECURSIVE RoundRobinFrom(_, _, _, _, _)
RoundRobinFrom(os, pl, idx, attempts, t) ==
    IF attempts >= Len(pl) * 2 THEN [res |-> NoAcct, objs |-> os, idx |-> idx]
    ELSE IF idx >= Len(pl) THEN [res |-> IndexErr, objs |-> os, idx |-> idx]
    ELSE
      LET o == pl[idx + 1]
          r == is_available(os[o], t)
          os1 == [os EXCEPT ![o] = r.acc]
          idx1 == (idx + 1) % Len(pl)
      IN  IF r.ok THEN [res |-> o, objs |-> os1, idx |-> idx1]
          ELSE RoundRobinFrom(os1, pl, idx1, attempts + 1, t)

\* a round-robin whose cursor stays where the call found it
_round_robin_stuck(os, pl, idx, t) ==
    {[RoundRobinFrom(os, pl, idx, 0, t) EXCEPT !.idx = idx]}

_round_robin(os, pl, idx, t) == {RoundRobinFrom(os, pl, idx, 0, t)}

\* random.choice over the whole pool, without the availability filter
_random_unfiltered(os, pl, idx, t) ==
    LET os1 == QueryAll(os, pl, t)
    IN  IF pl = <<>> THEN {[res |-> NoAcct, objs |-> os1, idx |-> idx]}
        ELSE {[res |-> o, objs |-> os1, idx |-> idx] : o \in Range(pl)}

_random(os, pl, idx, t) ==
    LET avail == AvailableList(os, pl, t)
        os1 == QueryAll(os, pl, t)
    IN  IF avail = <<>> THEN {[res |-> NoAcct, objs |-> os1, idx |-> idx]}
        ELSE {[res |-> o, objs |-> os1, idx |-> idx] : o \in Range(avail)}

\* the first element of a stable ascending sort of s by key
FirstMin(s, key) ==
    LET i == CHOOSE i \in DOMAIN s :
                 /\ \A j \in DOMAIN s : key[s[i]] <= key[s[j]]
                 /\ \A j \in DOMAIN s : j < i => key[s[j]] > key[s[i]]
    IN  s[i]

_least_used(os, pl, idx, t) ==
    LET avail == AvailableList(os, pl, t)
        os1 == QueryAll(os, pl, t)
    IN  IF avail = <<>> THEN {[res |-> NoAcct, objs |-> os1, idx |-> idx]}
        ELSE {[res |-> FirstMin(avail,
                               [o \in DOMAIN os1 |-> os1[o].request_count]),
               objs |-> os1, idx |-> idx]}

_quota_aware(os, pl, idx, t) ==
    LET avail == AvailableList(os, pl, t)
        os1 == QueryAll(os, pl, t)
    IN  IF avail = <<>> THEN {[res |-> NoAcct, objs |-> os1, idx |-> idx]}
        ELSE {[res |-> FirstMin(avail,
                                [o \in DOMAIN os1 |->
                                   0 - get_quota_remaining(os1[o])]),
               objs |-> os1, idx |-> idx]}

\* AccountManager.get_next_account: the possible outcomes of one call
get_next_account(os, pl, idx, strategy, t) ==
    IF strategy = "round-robin" THEN _round_robin(os, pl, idx, t)
    ELSE IF strategy = "random" THEN _random(os, pl, idx, t)
    ELSE IF strategy = "least-used" THEN _least_used(os, pl, idx, t)
    ELSE _quota_aware(os, pl, idx, t)

\* ------------------------------------------------------------ error texts
\* An exception text is the sequence of its lower-cased fragments; the
\* dispatcher's substring tests look for a fragment.
Contains(text, w) == \E i \in DOMAIN text : text[i] = w

\* the fragments of an account name that the dispatcher's tests can match
NameWords(name) ==
    IF name = "b403" THEN <<"b", "403">> ELSE <<name>>

\* RuntimeError of WarpClient.ensure_ready
PrepareErrorText(name, what) ==
    <<"failed to prepare">> \o NameWords(name) \o <<what>>

\* RuntimeError of WarpClient._send_request_and_parse on a non-200 response
ApiErrorText(status, body) == <<"warp api error: http", status>> \o body

ValueErrorText == <<"no user message or tool results found">>
TimeoutText == <<"timed out">>

\* the except Exception branch of handle_chat_completion and of
\* handle_anthropic_completion: which arm the error text selects
Classify(text) ==
    IF \/ Contains(text, "403")
       \/ Contains(text, "forbidden")
       \/ Contains(text, "unauthorized") THEN "403"
    ELSE IF \/ Contains(text, "429")
            \/ Contains(text, "too many")
            \/ Contains(text, "rate limit") THEN "429"
    ELSE IF Contains(text, "failed to prepare") THEN "prepare"
    ELSE "other"

\* ------------------------------------------------------------ dispatcher
\* the client requests explored: <<endpoint, stream, message list>>
Kinds ==
    {<<"openai", FALSE, "plain">>, <<"openai", TRUE, "plain">>,
     <<"anthropic", FALSE, "tools">>, <<"anthropic", TRUE, "plain">>,
     <<"openai", FALSE, "empty">>, <<"openai", TRUE, "empty">>}
TokenOutcomes == {"200", "403", "429", "timeout"}
LoginOutcomes == {"204", "403", "429", "timeout"}
AiOutcomes == {"200", "403", "429", "500", "timeout"}
Bodies == {<<"no error content">>, <<"no remaining quota">>, <<"forbidden">>}

\* what an upstream endpoint answered: the status, and for an error of the AI
\* endpoint the fragments of its body
Answer(status, body) ==
    IF status \in {"200", "timeout"} THEN <<status>> ELSE <<status>> \o body

StatusOf(answer) == IF answer = <<>> THEN "" ELSE answer[1]

NewRequest(fmt, stream, shape) ==
    [pc |-> "idle", fmt |-> fmt, stream |-> stream, shape |-> shape,
     attempt |-> 0, acct |-> NoAcct, sent |-> 0, posts |-> 0,
     selections |-> 0, answer |-> <<>>, code |-> 0, kind |-> "",
     served |-> NoAcct]

IdleRequest == NewRequest("openai", FALSE, "plain")

\* the response the client gets
Respond(rq, code, kind, served) ==
    [rq EXCEPT !.pc = "done", !.code = code, !.kind = kind,
               !.served = served, !.acct = NoAcct]

\* where WarpClient.ensure_ready first suspends for account a
NextPc(a, t) ==
    IF is_jwt_expired(a, t) THEN "refresh"
    ELSE IF ~a.is_logged_in THEN "login"
    ELSE "send"

\* the upstream POSTs one chat_completion call makes for this request
NPosts(rq, split) ==
    IF split /\ rq.shape = "tools" /\ NumToolResults > 1
    THEN NumToolResults ELSE 1

\* the loop body of handle_chat_completion up to the first suspension:
\* get_next_account, then NoAvailableAccountError / any other exception
AfterPick(rq, p, saves) ==
    LET rq1 == [rq EXCEPT !.selections = @ + 1]
    IN  [objs |-> p.objs, idx |-> p.idx, saves |-> saves,
         req |-> IF p.res = NoAcct
                 THEN Respond(rq1, 503, "unavailable", NoAcct)
                 ELSE IF p.res = IndexErr
                 THEN Respond(rq1, 500, "error", NoAcct)
                 ELSE [rq1 EXCEPT !.acct = p.res, !.sent = 0,
                                  !.pc = NextPc(p.objs[p.res], now)]]

Select(os, idx, rq, saves) ==
    {AfterPick(rq, p, saves) :
        p \in get_next_account(os, pool, idx, settings.strategy, now)}

\* the retry loop without its bound: every retryable error selects again
FailUnbounded(os, idx, rq, text, saves) ==
    IF rq.stream
    THEN {[objs |-> os, idx |-> idx, saves |-> saves,
           req |-> Respond(rq, 200, "truncated", NoAcct)]}
    ELSE
      LET cls == Classify(text)
          marked == cls \in {"403", "429"}
          os1 == IF marked
                 THEN [os EXCEPT ![rq.acct] = mark_blocked(@, cls, now)]
                 ELSE os
          saves1 == IF marked THEN saves \cup {rq.acct} ELSE saves
      IN  IF cls = "other"
          THEN {[objs |-> os1, idx |-> idx, saves |-> saves1,
                 req |-> Respond(rq, 500, "error", NoAcct)]}
          ELSE Select(os1, idx, [rq EXCEPT !.attempt = @ + 1], saves1)

\* an exception with this text leaves chat_completion on account rq.acct:
\* the streaming adapters swallow it, the unary path reaches the retry loop
Fail(os, idx, rq, text, saves) ==
    IF rq.stream
    THEN {[objs |-> os, idx |-> idx, saves |-> saves,
           req |-> Respond(rq, 200, "truncated", NoAcct)]}
    ELSE
      LET cls == Classify(text)
          marked == cls \in {"403", "429"}
          os1 == IF marked
                 THEN [os EXCEPT ![rq.acct] = mark_blocked(@, cls, now)]
                 ELSE os
          saves1 == IF marked THEN saves \cup {rq.acct} ELSE saves
      IN  IF cls = "other"
          THEN {[objs |-> os1, idx |-> idx, saves |-> saves1,
                 req |-> Respond(rq, 500, "error", NoAcct)]}
          ELSE IF rq.attempt < MaxRetries - 1
          THEN Select(os1, idx, [rq EXCEPT !.attempt = @ + 1], saves1)
          ELSE {[objs |-> os1, idx |-> idx, saves |-> saves1,
                 req |-> Respond(rq, 500, "error", NoAcct)]}

Spend(what) == [budget EXCEPT ![what] = @ - 1]

Apply(r, out, what) ==
    /\ what # "" => budget[what] > 0
    /\ budget' = IF what # "" THEN Spend(what) ELSE budget
    /\ objs' = out.objs
    /\ current_index' = out.idx
    /\ reqs' = [reqs EXCEPT ![r] = out.req]
    /\ pendingSaves' = pendingSaves \cup out.saves
    /\ UNCHANGED <<sse, pool, files, now, batch, settings>>

\* WarpClient.refresh_token on account a: the account afterwards
refresh_token(a, outcome, t) ==
    IF outcome = "200"
    THEN mark_token_refreshed([a EXCEPT !.jwt_expires_at = t + ExpiresIn], t)
    ELSE IF outcome \in {"403", "429"} THEN mark_blocked(a, outcome, t)
    ELSE a

\* refresh_token schedules a save task on success and through mark_blocked
RefreshSaves(o, outcome) ==
    IF outcome \in {"200", "403", "429"} THEN {o} ELSE {}

\* WarpClient.login on account a, its token being valid
login(a, outcome, t) ==
    IF outcome = "204" THEN [a EXCEPT !.is_logged_in = TRUE]
    ELSE IF outcome \in {"403", "429"} THEN mark_blocked(a, outcome, t)
    ELSE a

\* the marks of _send_request_and_parse on a non-200 response
MarkNon200(a, status, body, t) ==
    IF status = "403" THEN mark_blocked(a, "403", t)
    ELSE IF status = "429" THEN mark_blocked(a, "429", t)
    ELSE IF Contains(body, "no remaining quota")
         THEN mark_quota_exceeded(a, t)
    ELSE a

\* a client request arrives: handle_chat_completion / handle_anthropic_completion
ReqStart(r) ==
    /\ reqs[r].pc \in {"idle", "done"}
    /\ r <= budget.overlap
    /\ \A q \in 1 .. (r - 1) : reqs[q].pc \notin {"idle", "done"}
    /\ \E k \in Kinds :
         \E out \in Select(objs, current_index,
                           NewRequest(k[1], k[2], k[3]), {}) :
            Apply(r, out, "request")

\* the token endpoint answers the refresh of ensure_ready
ReqRefresh(r) ==
    /\ reqs[r].pc = "refresh"
    /\ LET o == reqs[r].acct
       IN  \E outcome \in TokenOutcomes :
             LET rq == [reqs[r] EXCEPT !.answer = <<outcome>>]
                 os1 == [objs EXCEPT ![o] = refresh_token(@, outcome, now)]
                 saves == RefreshSaves(o, outcome)
             IN  IF outcome = "200"
                 THEN Apply(r, [objs |-> os1, idx |-> current_index,
                                saves |-> saves,
                                req |-> [rq EXCEPT !.pc =
                                           IF os1[o].is_logged_in
                                           THEN "send" ELSE "login"]],
                            "")
                 ELSE \E out \in Fail(os1, current_index, rq,
                                      PrepareErrorText(objs[o].name,
                                                       "token refresh failed"),
                                      saves) :
                         Apply(r, out, "fault")

\* the login endpoint answers the login of ensure_ready
ReqLogin(r) ==
    /\ reqs[r].pc = "login"
    /\ LET o == reqs[r].acct
       IN  \E outcome \in LoginOutcomes :
             LET rq == [reqs[r] EXCEPT !.answer = <<outcome>>]
                 os1 == [objs EXCEPT ![o] = login(@, outcome, now)]
                 saves == IF outcome \in {"403", "429"} THEN {o} ELSE {}
             IN  IF outcome = "204"
                 THEN Apply(r, [objs |-> os1, idx |-> current_index,
                                saves |-> saves,
                                req |-> [rq EXCEPT !.pc = "send"]],
                            "")
                 ELSE \E out \in Fail(os1, current_index, rq,
                                      PrepareErrorText(objs[o].name,
                                                       "login failed"),
                                      saves) :
                         Apply(r, out, "fault")

\* chat_completion builds the request and the AI endpoint answers one POST
ReqSend(r) ==
    /\ reqs[r].pc = "send"
    /\ LET rq == reqs[r]
           o == rq.acct
       IN  IF rq.shape = "empty"
           THEN \E out \in Fail(objs, current_index,
                                [rq EXCEPT !.answer = <<>>], ValueErrorText,
                                {}) :
                   Apply(r, out, "")
           ELSE
             \E status \in AiOutcomes, body \in Bodies :
               LET rq1 == [rq EXCEPT !.posts = @ + 1, !.sent = @ + 1,
                                     !.answer = Answer(status, body)]
               IN  IF status = "200"
                   THEN /\ body = <<"no error content">>
                        /\ Apply(r, [objs |-> [objs EXCEPT ![o] = mark_used(@)],
                                     idx |-> current_index, saves |-> {},
                                     req |-> IF rq1.sent <
                                                NPosts(rq, settings.split)
                                             THEN rq1
                                             ELSE Respond(rq1, 200, "ok", o)],
                                 "")
                   ELSE IF status = "timeout"
                   THEN /\ body = <<"no error content">>
                        /\ \E out \in Fail([objs EXCEPT ![o] = mark_error(@)],
                                           current_index, rq1, TimeoutText,
                                           {}) :
                              Apply(r, out, "fault")
                   ELSE \E out \in
                          Fail([objs EXCEPT ![o] =
                                  mark_error(MarkNon200(@, status, body, now))],
                               current_index, rq1, ApiErrorText(status, body),
                               IF status \in {"403", "429"} THEN {o} ELSE {}) :
                            Apply(r, out, "fault")

\* ------------------------------------------------------------------ heap
ObjIds == 1 .. (Cardinality(Names) * 2)

\* the objects a suspended request, the batch refresh or a save task holds
Held ==
    {reqs[r].acct : r \in {q \in DOMAIN reqs : reqs[q].acct # NoAcct}}
    \cup pendingSaves
    \cup (IF batch.active THEN Range(batch.todo) \cup Range(batch.accts)
          ELSE {})

\* the n smallest ids outside refs, in ascending order
RECURSIVE FreshIds(_, _, _)
FreshIds(refs, n, from) ==
    IF n = 0 THEN <<>>
    ELSE IF from \in refs THEN FreshIds(refs, n, from + 1)
    ELSE <<from>> \o FreshIds(refs, n - 1, from + 1)

IndexOf(s, x) == CHOOSE i \in DOMAIN s : s[i] = x

\* ------------------------------------------------------------- scheduler
\* a save task created by create_task(save_account(account)) runs
SaveTask(o) ==
    /\ o \in pendingSaves
    /\ files' = save_account(files, objs[o])
    /\ pendingSaves' = pendingSaves \ {o}
    /\ UNCHANGED <<sse, objs, pool, current_index, now, reqs, batch, settings,
                   budget>>

\* 30 minutes pass.  Every upstream call carries a timeout far below that,
\* so the tick finds no handler between two of its upstream calls and the
\* event loop has run the tasks it was given
Tick ==
    /\ budget.tick > 0
    /\ pendingSaves = {}
    /\ \A r \in DOMAIN reqs : reqs[r].pc \in {"idle", "done"}
    /\ ~batch.active
    /\ now' = now + 1
    /\ budget' = Spend("tick")
    /\ UNCHANGED <<sse, objs, pool, current_index, files, pendingSaves, reqs,
                   batch, settings>>

\* ----------------------------------------------------------- admin surface
\* GET /health and GET /stats: get_available_accounts
AvailabilityQuery ==
    /\ objs' = QueryAll(objs, pool, now)
    /\ UNCHANGED <<sse, pool, current_index, files, pendingSaves, now, reqs,
                   batch, settings, budget>>

UsageReports == {<<2, 0>>, <<2, 2>>}
NoReport == <<NoTime, NoTime>>

\* WarpClient.get_usage on account a: refresh if needed, then the query
get_usage(a, refreshOutcome, report, t) ==
    LET a1 == IF is_jwt_expired(a, t) THEN refresh_token(a, refreshOutcome, t)
              ELSE a
    IN  IF is_jwt_expired(a, t) /\ refreshOutcome # "200" THEN a1
        ELSE IF report = NoReport THEN a1
        ELSE LET a2 == [a1 EXCEPT !.quota_limit = report[1],
                                  !.quota_used = report[2]]
             IN  IF a2.quota_used >= a2.quota_limit
                 THEN mark_quota_exceeded(a2, t) ELSE a2

\* GET /accounts/{account_name}/usage
UsageQuery(name) ==
    /\ budget.admin > 0
    /\ \E i \in DOMAIN pool :
         /\ objs[pool[i]].name = name
         /\ \A j \in DOMAIN pool : j < i => objs[pool[j]].name # name
         /\ \E refreshOutcome \in TokenOutcomes,
               report \in UsageReports \cup {NoReport} :
              LET o == pool[i]
                  expired == is_jwt_expired(objs[o], now)
              IN  /\ expired \/ refreshOutcome = "200"
                  /\ (expired /\ refreshOutcome # "200") => report = NoReport
                  /\ refreshOutcome # "200" => budget.fault > 0
                  /\ budget' = [budget EXCEPT
                                  !.admin = @ - 1,
                                  !.fault = IF refreshOutcome # "200"
                                            THEN @ - 1 ELSE @]
                  /\ objs' = [objs EXCEPT ![o] =
                                get_usage(@, refreshOutcome, report, now)]
                  /\ pendingSaves' =
                        IF expired
                        THEN pendingSaves \cup RefreshSaves(o, refreshOutcome)
                        ELSE pendingSaves
    /\ UNCHANGED <<sse, pool, current_index, files, now, reqs, batch, settings>>

NoBatch == [active |-> FALSE, todo |-> <<>>, succ |-> 0, accts |-> <<>>,
            stale |-> FALSE]

\* POST /accounts/refresh: refresh_all_tokens up to its first refresh
BatchStart ==
    /\ budget.admin > 0
    /\ ~batch.active
    /\ LET todo == SelectSeq(pool,
                             LAMBDA o : should_refresh_token(objs[o], now))
       IN  /\ todo # <<>>
           /\ batch' = [active |-> TRUE, todo |-> todo, succ |-> 0,
                        accts |-> <<>>, stale |-> FALSE]
    /\ budget' = Spend("admin")
    /\ UNCHANGED <<sse, objs, pool, current_index, files, pendingSaves, now, reqs,
                   settings>>

\* AccountManager.save_all_accounts over the manager's account list
RECURSIVE save_all_accounts(_, _, _)
save_all_accounts(fs, os, accts) ==
    IF accts = <<>> THEN fs
    ELSE save_all_accounts(save_account(fs, os[Head(accts)]), os, Tail(accts))

\* _refresh_single_token on the next account of the batch; after the last
\* one, save_all_accounts if any refresh succeeded
BatchStep ==
    /\ batch.active
    /\ \E outcome \in TokenOutcomes :
         LET o == Head(batch.todo)
             a1 == refresh_token(objs[o], outcome, now)
             a2 == IF outcome = "200" THEN mark_token_refreshed(a1, now)
                   ELSE mark_error(a1)
             os1 == [objs EXCEPT ![o] = a2]
             succ == IF outcome = "200" THEN batch.succ + 1 ELSE batch.succ
             last == Len(batch.todo) = 1
             mine == IF batch.stale THEN batch.accts ELSE pool
         IN  /\ outcome # "200" => budget.fault > 0
             /\ budget' = IF outcome # "200" THEN Spend("fault") ELSE budget
             /\ objs' = os1
             /\ pendingSaves' = pendingSaves \cup RefreshSaves(o, outcome)
             /\ batch' = IF last THEN NoBatch
                         ELSE [batch EXCEPT !.todo = Tail(@), !.succ = succ]
             /\ files' = IF last /\ succ > 0
                         THEN save_all_accounts(files, os1, mine)
                         ELSE files
    /\ UNCHANGED <<sse, pool, current_index, now, reqs, settings>>

\* POST /accounts/reload: a new AccountManager over new Account objects
ReloadAccounts ==
    /\ budget.admin > 0
    /\ LET stems == ExistingStems(files)
           batch1 == IF batch.active /\ ~batch.stale
                     THEN [batch EXCEPT !.accts = pool, !.stale = TRUE]
                     ELSE batch
           refs == {reqs[r].acct :
                       r \in {q \in DOMAIN reqs : reqs[q].acct # NoAcct}}
                   \cup pendingSaves
                   \cup (IF batch1.active
                         THEN Range(batch1.todo) \cup Range(batch1.accts)
                         ELSE {})
           ids == FreshIds(refs, Len(stems), 1)
       IN  /\ objs' = [o \in ObjIds |->
                         IF o \in refs THEN objs[o]
                         ELSE IF o \in Range(ids)
                         THEN WithInterval(
                                 LoadedAccount(files[stems[IndexOf(ids, o)]]),
                                 settings.retry_429_interval)
                         ELSE FreeCell]
           /\ pool' = ids
           /\ batch' = batch1
    /\ current_index' = 0
    /\ budget' = Spend("admin")
    /\ UNCHANGED <<sse, files, pendingSaves, now, reqs, settings>>

\* POST /accounts/add
AddAccount(name) ==
    /\ budget.admin > 0
    /\ \A i \in DOMAIN pool : objs[pool[i]].name # name
    /\ LET o == FreshIds(Held \cup Range(pool), 1, 1)[1]
           a == Account(name, "rt", TRUE, "none", NoTime, NoTime)
       IN  /\ objs' = [objs EXCEPT ![o] = a]
           /\ pool' = Append(pool, o)
           /\ files' = save_account(files, a)
    /\ budget' = Spend("admin")
    /\ UNCHANGED <<sse, current_index, pendingSaves, now, reqs, batch, settings>>

RECURSIVE DeleteFiles(_, _, _)
DeleteFiles(fs, os, accts) ==
    IF accts = <<>> THEN fs
    ELSE DeleteFiles(delete_account_file(fs, os[Head(accts)].name), os,
                     Tail(accts))

\* POST /accounts/delete-blocked
DeleteBlocked ==
    /\ budget.admin > 0
    /\ LET blocked == SelectSeq(pool, LAMBDA o : objs[o].status_code = "403")
           pool1 == SelectSeq(pool, LAMBDA o : objs[o].status_code # "403")
       IN  /\ blocked # <<>>
           /\ pool' = pool1
           /\ files' = DeleteFiles(files, objs, blocked)
           /\ objs' = [o \in ObjIds |->
                         IF o \in Held \cup Range(pool1) THEN objs[o]
                         ELSE FreeCell]
    /\ budget' = Spend("admin")
    /\ UNCHANGED <<sse, current_index, pendingSaves, now, reqs, batch, settings>>

\* ----------------------------------------------------- response adapters
\* JSON texts are strings; a JSON value is named by its compact text.
VCity == "{\"city\":\"Paris\"}"
VQX == "{\"q\":\"x\"}"
VQList == "[\"q\"]"
VQEmpty == "{\"q\":\"\"}"
VEmpty == "{}"

\* the arguments object of a call_mcp_tool call: {"name": n, "args": a}
Wrapped(n, a) == "{\"name\":\"" \o n \o "\",\"args\":" \o a \o "}"

WrappedNames == {"search", ""}
WrappedArgs == {VQX, VQList}
JsonValues ==
    {VCity, VQX, VQList, VQEmpty, VEmpty}
    \cup {Wrapped(n, a) : n \in WrappedNames, a \in WrappedArgs}

\* json.dumps(value, ensure_ascii=False): the default separators ", " and
\* ": "
json_dumps(v) ==
    LET plain(x) == IF x = VCity THEN "{\"city\": \"Paris\"}"
                    ELSE IF x = VQX THEN "{\"q\": \"x\"}"
                    ELSE IF x = VQEmpty THEN "{\"q\": \"\"}"
                    ELSE x
    IN  IF \E n \in WrappedNames, a \in WrappedArgs : v = Wrapped(n, a)
        THEN LET w == CHOOSE w \in WrappedNames \X WrappedArgs :
                         v = Wrapped(w[1], w[2])
             IN  "{\"name\": \"" \o w[1] \o "\", \"args\": "
                 \o plain(w[2]) \o "}"
        ELSE plain(v)

JSONDecodeError == "JSONDecodeError"

\* json.loads(text): the value, or JSONDecodeError for a text that is not
\* a complete JSON document
json_loads(s) ==
    IF s \in JsonValues THEN s
    ELSE IF \E v \in JsonValues : json_dumps(v) = s
    THEN CHOOSE v \in JsonValues : json_dumps(v) = s
    ELSE JSONDecodeError

\* arguments.get("name", "") and arguments.get("args", {}) on a parsed value
GetName(v) ==
    IF \E n \in WrappedNames, a \in WrappedArgs : v = Wrapped(n, a)
    THEN (CHOOSE w \in WrappedNames \X WrappedArgs :
             v = Wrapped(w[1], w[2]))[1]
    ELSE ""

GetArgs(v) ==
    IF \E n \in WrappedNames, a \in WrappedArgs : v = Wrapped(n, a)
    THEN (CHOOSE w \in WrappedNames \X WrappedArgs :
             v = Wrapped(w[1], w[2]))[2]
    ELSE VEmpty

\* OpenAIAdapter.transform_mcp_tool_call
transform_mcp_tool_call(tc) ==
    IF tc.name # "call_mcp_tool" THEN tc
    ELSE LET arguments == json_loads(tc.arguments)
             actual_tool_name == GetName(arguments)
             actual_args == IF GetArgs(arguments) = VQList THEN VQEmpty
                            ELSE GetArgs(arguments)
         IN  IF arguments = JSONDecodeError \/ actual_tool_name = "" THEN tc
             ELSE [id |-> tc.id, type |-> "function",
                   name |-> actual_tool_name,
                   arguments |-> json_dumps(actual_args)]

\* The normalized events _parse_sse_stream yields for a 200 response.
Texts == {"He", "llo", ""}
TextActions == {"add_messages_to_task", "append_to_message_content"}
ConversationIds == {"c1", "c2"}

\* the halves of a call_mcp_tool arguments text that arrives in two pieces
WrappedHead == "{\"name\":\"search\","
WrappedTail == "\"args\":{\"q\":\"x\"}}"

\* one tool-call increment: index, and id, type, name, arguments where
\* the increment carries them ("" where it does not)
ToolDelta(index, id, name, arguments) ==
    [index |-> index, id |-> id,
     type |-> IF id = "" THEN "" ELSE "function",
     name |-> name, arguments |-> arguments]

ToolDeltas ==
    {ToolDelta(0, "call_1", "get_weather", VCity),
     ToolDelta(0, "toolu_2", "call_mcp_tool", Wrapped("search", VQX)),
     ToolDelta(0, "call_1", "call_mcp_tool", WrappedHead),
     ToolDelta(0, "", "", WrappedTail),
     ToolDelta(0, "call_1", "call_mcp_tool", Wrapped("search", VQList))}

UpstreamEvents ==
    {<<"finished", "stop">>, <<"finished", "max_token_limit">>,
     <<"finished", "quota_limit">>}
    \cup {<<"init", c>> : c \in ConversationIds}
    \cup {<<"tool_call", d>> : d \in ToolDeltas}
    \cup {<<k, t>> : k \in TextActions, t \in Texts}

Adapters ==
    {"openai_stream", "openai_unary", "anthropic_stream", "anthropic_unary"}

\* no response is being adapted
NoStream ==
    [state |-> "idle", adapter |-> "openai_stream", parser |-> FALSE,
     events |-> <<>>, frames |-> <<>>, first_chunk_sent |-> FALSE,
     content_started |-> FALSE, content_index |-> 0, tool_calls |-> <<>>,
     current_tool_index |-> 0 - 1, content_parts |-> <<>>,
     finish_reason |-> "stop", stop_reason |-> "end_turn",
     response |-> <<>>, new_conversation_id |-> "", active_task_id |-> ""]

\* extract_openai_sse_deltas_from_response of warp2protobuf.warp.response:
\* the chat.completion.chunk deltas of one event
ParserDeltas(e) ==
    IF e[1] \in TextActions
    THEN IF e[2] # "" THEN <<<<"content", e[2]>>>> ELSE <<>>
    ELSE IF e[1] = "tool_call" THEN <<<<"tool_calls", e[2]>>>>
    ELSE IF e[1] = "finished"
    THEN <<<<"finish",
             IF e[2] = "max_token_limit" THEN "length" ELSE "stop">>>>
    ELSE <<>>

\* the role chunk that precedes the first content or tool_calls chunk
WithRole(st, delta) ==
    IF ~st.first_chunk_sent /\ delta[1] \in {"content", "tool_calls"}
    THEN [st EXCEPT !.frames = @ \o <<<<"role">>, delta>>,
                    !.first_chunk_sent = TRUE]
    ELSE [st EXCEPT !.frames = Append(@, delta)]

\* the gateway step of warp_to_openai_stream on one tool-call increment
StreamGateway(tc) ==
    IF /\ tc.name = "call_mcp_tool"
       /\ tc.arguments # ""
       /\ json_loads(tc.arguments) # JSONDecodeError
       /\ GetName(json_loads(tc.arguments)) # ""
    THEN transform_mcp_tool_call(tc)
    ELSE tc

\* one turn of the event loop of warp_to_openai_stream; parsed says that
\* the warp parser handled the event (it is imported and did not raise)
warp_to_openai_stream(st, e, parsed) ==
    LET st1 == [st EXCEPT !.events = Append(@, e)]
    IN  IF parsed
        THEN IF ParserDeltas(e) = <<>> THEN st1
             ELSE LET delta == ParserDeltas(e)[1]
                  IN  IF delta[1] = "tool_calls"
                      THEN WithRole(st1, <<"tool_calls",
                                           StreamGateway(delta[2])>>)
                      ELSE WithRole(st1, delta)
        ELSE IF e[1] = "init" THEN st1
        ELSE IF e[1] \in TextActions
        THEN IF e[2] # "" THEN WithRole(st1, <<"content", e[2]>>) ELSE st1
        ELSE IF e[1] = "finished"
        THEN [st1 EXCEPT
                !.frames = @ \o <<<<"finish",
                                    IF e[2] = "max_token_limit"
                                    THEN "length" ELSE "stop">>,
                                  <<"done">>>>,
                !.state = "returned"]
        ELSE st1

\* the accumulation of one tool-call increment into the list of calls
EmptyToolCall == [id |-> "", type |-> "function", name |-> "",
                  arguments |-> ""]

AccumulateToolCall(tool_calls, d) ==
    LET padded == IF Len(tool_calls) <= d.index
                  THEN tool_calls \o
                       [i \in 1 .. (d.index + 1 - Len(tool_calls)) |->
                           EmptyToolCall]
                  ELSE tool_calls
    IN  [padded EXCEPT ![d.index + 1] =
            [id |-> IF d.id # "" THEN d.id ELSE @.id,
             type |-> IF d.type # "" THEN d.type ELSE @.type,
             name |-> @.name \o d.name,
             arguments |-> @.arguments \o d.arguments]]

RECURSIVE Join(_)
Join(parts) == IF parts = <<>> THEN "" ELSE Head(parts) \o Join(Tail(parts))

\* one turn of the event loop of warp_to_openai_response
warp_to_openai_response(st, e, parsed) ==
    LET st1 == [st EXCEPT !.events = Append(@, e)]
    IN  IF parsed /\ ParserDeltas(e) # <<>>
        THEN LET delta == ParserDeltas(e)[1]
             IN  IF delta[1] = "content"
                 THEN [st1 EXCEPT !.content_parts = Append(@, delta[2])]
                 ELSE IF delta[1] = "tool_calls"
                 THEN [st1 EXCEPT !.tool_calls =
                                     AccumulateToolCall(@, delta[2])]
                 ELSE [st1 EXCEPT !.finish_reason = delta[2]]
        ELSE IF e[1] \in TextActions
        THEN IF e[2] # "" THEN [st1 EXCEPT !.content_parts = Append(@, e[2])]
             ELSE st1
        ELSE IF e[1] = "finished"
        THEN [st1 EXCEPT !.finish_reason =
                            IF e[2] = "max_token_limit" THEN "length"
                            ELSE IF st.tool_calls # <<>> THEN "tool_calls"
                            ELSE @]
        ELSE st1

\* the chat.completion warp_to_openai_response assembles after the loop
OpenAIResponse(st) ==
    [content |-> Join(st.content_parts),
     tool_calls |-> [i \in DOMAIN st.tool_calls |->
                        transform_mcp_tool_call(st.tool_calls[i])],
     finish_reason |-> st.finish_reason]

\* an Anthropic SSE frame; index is NoIndex and data is empty where the
\* frame has none
NoIndex == 0 - 1
Frame(type, index, data) == [type |-> type, index |-> index, data |-> data]
MessageStart == Frame("message_start", NoIndex, <<>>)
TextStart(i) == Frame("content_block_start", i, <<"text">>)
TextDelta(i, t) == Frame("content_block_delta", i, <<"text_delta", t>>)
BlockStop(i) == Frame("content_block_stop", i, <<>>)
MessageDelta(stop_reason) == Frame("message_delta", NoIndex, <<stop_reason>>)
MessageStop == Frame("message_stop", NoIndex, <<>>)

\* tool_id.startswith("toolu_") on the ids that occur
PrefixedIds == {"toolu_2"}
ToolUseId(id) == IF id \in PrefixedIds THEN id ELSE "toolu_" \o id

\* input_obj of a tool call: its parsed arguments, {} when they are empty
\* or do not parse
InputObj(tc) ==
    IF tc.arguments = "" \/ json_loads(tc.arguments) = JSONDecodeError
    THEN VEmpty ELSE json_loads(tc.arguments)

\* the content_block_start / input_json_delta / content_block_stop frames
\* of the calls that have an id and a name, from block index i on
RECURSIVE ToolUseFrames(_, _)
ToolUseFrames(tool_calls, i) ==
    IF tool_calls = <<>> THEN <<>>
    ELSE LET tc == Head(tool_calls)
         IN  IF tc.id # "" /\ tc.name # ""
             THEN <<Frame("content_block_start", i,
                          <<"tool_use", ToolUseId(tc.id), tc.name>>),
                    Frame("content_block_delta", i,
                          <<"input_json_delta", json_dumps(InputObj(tc))>>),
                    BlockStop(i)>>
                  \o ToolUseFrames(Tail(tool_calls), i + 1)
             ELSE ToolUseFrames(Tail(tool_calls), i)

\* a text increment of warp_to_anthropic_stream
AnthropicText(st, t) ==
    [st EXCEPT !.frames = @ \o (IF st.content_started THEN <<>>
                                ELSE <<TextStart(st.content_index)>>)
                            \o <<TextDelta(st.content_index, t)>>,
               !.content_started = TRUE]

\* one turn of the event loop of warp_to_anthropic_stream
warp_to_anthropic_stream(st, e, parsed) ==
    LET st1 == [st EXCEPT !.events = Append(@, e)]
    IN  IF parsed
        THEN IF ParserDeltas(e) = <<>> THEN st1
             ELSE
               LET delta == ParserDeltas(e)[1]
               IN  IF delta[1] = "content" THEN AnthropicText(st1, delta[2])
                   ELSE IF delta[1] = "tool_calls"
                   THEN LET d == delta[2]
                            calls == AccumulateToolCall(st1.tool_calls, d)
                            new == /\ d.index > st1.current_tool_index
                                   /\ calls[d.index + 1].id # ""
                            close == new /\ st1.content_started
                        IN  [st1 EXCEPT
                               !.tool_calls = calls,
                               !.frames = IF close
                                          THEN Append(@, BlockStop(
                                                         st1.content_index))
                                          ELSE @,
                               !.content_index = IF close THEN @ + 1 ELSE @,
                               !.content_started = IF close THEN FALSE ELSE @,
                               !.current_tool_index = IF new THEN d.index
                                                      ELSE @]
                   ELSE LET i == IF st1.content_started
                                 THEN st1.content_index + 1
                                 ELSE st1.content_index
                            stop_reason ==
                                IF delta[2] = "tool_calls"
                                   \/ st1.tool_calls # <<>> THEN "tool_use"
                                ELSE IF delta[2] = "length" THEN "max_tokens"
                                ELSE "end_turn"
                        IN  [st1 EXCEPT
                               !.frames =
                                  @ \o (IF st1.content_started
                                        THEN <<BlockStop(st1.content_index)>>
                                        ELSE <<>>)
                                    \o ToolUseFrames(st1.tool_calls, i)
                                    \o <<MessageDelta(stop_reason),
                                         MessageStop>>,
                               !.stop_reason = stop_reason,
                               !.state = "returned"]
        ELSE IF e[1] \in TextActions
        THEN IF e[2] # "" THEN AnthropicText(st1, e[2]) ELSE st1
        ELSE IF e[1] = "finished"
        THEN [st1 EXCEPT
                !.frames = @ \o (IF st1.content_started
                                 THEN <<BlockStop(st1.content_index)>>
                                 ELSE <<>>)
                             \o <<MessageDelta("end_turn"), MessageStop>>,
                !.state = "returned"]
        ELSE st1

\* one turn of the event loop of warp_to_anthropic_response
warp_to_anthropic_response(st, e, parsed) ==
    LET st1 == [st EXCEPT !.events = Append(@, e)]
    IN  IF parsed
        THEN IF ParserDeltas(e) = <<>> THEN st1
             ELSE LET delta == ParserDeltas(e)[1]
                  IN  IF delta[1] = "content"
                      THEN [st1 EXCEPT !.content_parts = Append(@, delta[2])]
                      ELSE IF delta[1] = "tool_calls"
                      THEN [st1 EXCEPT !.tool_calls =
                                          AccumulateToolCall(@, delta[2])]
                      ELSE [st1 EXCEPT !.stop_reason =
                                          IF delta[2] = "tool_calls"
                                          THEN "tool_use"
                                          ELSE IF delta[2] = "length"
                                          THEN "max_tokens" ELSE @]
        ELSE IF e[1] \in TextActions /\ e[2] # ""
        THEN [st1 EXCEPT !.content_parts = Append(@, e[2])]
        ELSE st1

\* the tool_use blocks of the calls that have an id and a name
RECURSIVE ToolUseBlocks(_)
ToolUseBlocks(tool_calls) ==
    IF tool_calls = <<>> THEN <<>>
    ELSE LET tc == Head(tool_calls)
         IN  (IF tc.id # "" /\ tc.name # ""
              THEN <<[type |-> "tool_use", id |-> ToolUseId(tc.id),
                      name |-> tc.name, input |-> InputObj(tc), text |-> ""]>>
              ELSE <<>>)
             \o ToolUseBlocks(Tail(tool_calls))

\* the message warp_to_anthropic_response assembles after the loop
AnthropicResponse(st) ==
    LET text == Join(st.content_parts)
        blocks == (IF text # ""
                   THEN <<[type |-> "text", id |-> "", name |-> "",
                           input |-> "", text |-> text]>>
                   ELSE <<>>)
                  \o ToolUseBlocks(st.tool_calls)
    IN  [content |-> IF blocks = <<>>
                     THEN <<[type |-> "text", id |-> "", name |-> "",
                             input |-> "", text |-> ""]>>
                     ELSE blocks,
         stop_reason |-> IF ToolUseBlocks(st.tool_calls) # <<>>
                         THEN "tool_use" ELSE st.stop_reason]

\* _send_request_and_parse hands an event on: the conversation_id of the
\* first init event is remembered
Capture(st, e) ==
    IF e[1] = "init" /\ st.new_conversation_id = ""
    THEN [st EXCEPT !.new_conversation_id = e[2]]
    ELSE st

\* the adapter of the response takes the event
Consume(st, e, parsed) ==
    IF st.adapter = "openai_stream" THEN warp_to_openai_stream(st, e, parsed)
    ELSE IF st.adapter = "openai_unary"
    THEN warp_to_openai_response(st, e, parsed)
    ELSE IF st.adapter = "anthropic_stream"
    THEN warp_to_anthropic_stream(st, e, parsed)
    ELSE warp_to_anthropic_response(st, e, parsed)

\* the adapter receives the next event of the upstream stream
StreamEvent ==
    /\ sse.state = "open"
    /\ Len(sse.events) < MaxEvents
    /\ \E e \in UpstreamEvents, parsed \in BOOLEAN :
          /\ parsed => sse.parser
          /\ sse' = Consume(Capture(sse, e), e, parsed)
    /\ UNCHANGED <<objs, pool, current_index, files, pendingSaves, now, reqs,
                   batch, settings, budget>>

\* the upstream stream is exhausted: _send_request_and_parse leaves its
\* loop and stores the conversation id, the adapter's async for loop ends
\* and a unary adapter assembles its response
StreamEnd ==
    /\ sse.state = "open"
    /\ sse' = [sse EXCEPT
                 !.state = "ended",
                 !.active_task_id = IF sse.new_conversation_id # ""
                                    THEN sse.new_conversation_id ELSE @,
                 !.response =
                    IF sse.adapter = "openai_unary"
                    THEN <<OpenAIResponse(sse)>>
                    ELSE IF sse.adapter = "anthropic_unary"
                    THEN <<AnthropicResponse(sse)>>
                    ELSE @]
    /\ UNCHANGED <<objs, pool, current_index, files, pendingSaves, now, reqs,
                   batch, settings, budget>>

\* the except arm of warp_to_openai_stream
openai_stream_except(st) ==
    [st EXCEPT !.state = "failed",
               !.frames = @ \o <<<<"finish", "stop">>, <<"done">>>>]

\* the except arm without the content_block_stop of the open block
anthropic_stream_except_open(st) ==
    [st EXCEPT !.state = "failed",
               !.frames = @ \o <<MessageDelta("end_turn"), MessageStop>>]

\* the except arm of warp_to_anthropic_stream
anthropic_stream_except(st) ==
    [st EXCEPT !.state = "failed",
               !.frames = @ \o (IF st.content_started
                                THEN <<BlockStop(st.content_index)>>
                                ELSE <<>>)
                            \o <<MessageDelta("end_turn"), MessageStop>>]

\* the upstream stream raises: a streaming adapter ends its output in its
\* except arm, a unary adapter raises again
StreamError ==
    /\ sse.state = "open"
    /\ sse' = IF sse.adapter = "openai_stream" THEN openai_stream_except(sse)
              ELSE IF sse.adapter = "anthropic_stream"
              THEN anthropic_stream_except(sse)
              ELSE [sse EXCEPT !.state = "raised"]
    /\ UNCHANGED <<objs, pool, current_index, files, pendingSaves, now, reqs,
                   batch, settings, budget>>

\* ------------------------------------------------------------------- Init
CleanFile(name) ==
    [name |-> name, refresh_token |-> "rt", enabled |-> TRUE,
     status_code |-> "none", last_refreshed |-> NoTime,
     last_attempt |-> NoTime]

\* the account directories the server starts on: two usable accounts; a
\* file migrate_accounts.py wrote with status "429" and no last_attempt
\* beside a disabled account; a "403" persisted by an earlier run
BlockedDirectory ==
    [a |-> CleanFile("a"),
     b403 |-> [CleanFile("b403") EXCEPT !.status_code = "403",
                                        !.last_attempt = StartNow - 1],
     c_d |-> NoFile]

Directories ==
    {[a |-> CleanFile("a"), b403 |-> CleanFile("b403"), c_d |-> NoFile],
     [a |-> [CleanFile("a") EXCEPT !.status_code = "429"],
      b403 |-> [CleanFile("b403") EXCEPT !.enabled = FALSE,
                                         !.refresh_token = "none"],
      c_d |-> NoFile],
     BlockedDirectory}

\* the settings.json files the server starts on
SettingsSet ==
    {[strategy |-> "round-robin", retry_429_interval |-> 1, split |-> TRUE],
     [strategy |-> "random", retry_429_interval |-> 1, split |-> FALSE],
     [strategy |-> "least-used", retry_429_interval |-> 2, split |-> TRUE],
     [strategy |-> "quota-aware", retry_429_interval |-> 2, split |-> FALSE]}

\* the events explored in one execution: client requests, admin calls,
\* upstream faults (a non-success answer of the token, login or AI endpoint)
\* and ticks of the clock; overlap is the number of client requests that
\* may be in flight together
Budgets ==
    {[request |-> 1, admin |-> 0, fault |-> 3, tick |-> 0, overlap |-> 1],
     [request |-> 2, admin |-> 1, fault |-> 0, tick |-> 0, overlap |-> 1],
     [request |-> 2, admin |-> 0, fault |-> 1, tick |-> 1, overlap |-> 1],
     [request |-> 2, admin |-> 0, fault |-> 0, tick |-> 0, overlap |-> 2],
     [request |-> 1, admin |-> 1, fault |-> 1, tick |-> 1, overlap |-> 1],
     [request |-> 0, admin |-> 2, fault |-> 1, tick |-> 3, overlap |-> 1]}

\* startup_event: load settings.json and the accounts directory
StartUp(S, D, B) ==
    /\ settings \in S
    /\ files \in D
    /\ budget \in B
    /\ LET stems == ExistingStems(files)
       IN  /\ pool = [i \in DOMAIN stems |-> i]
           /\ objs = [o \in ObjIds |->
                        IF o \in DOMAIN stems
                        THEN WithInterval(LoadedAccount(files[stems[o]]),
                                          settings.retry_429_interval)
                        ELSE FreeCell]
    /\ current_index = 0
    /\ pendingSaves = {}
    /\ now = StartNow
    /\ reqs = [r \in 1 .. MaxRequests |-> IdleRequest]
    /\ batch = NoBatch

Init ==
    /\ StartUp(SettingsSet, Directories, Budgets)
    /\ sse = NoStream

Next ==
    \/ \E r \in DOMAIN reqs : ReqStart(r)
    \/ \E r \in DOMAIN reqs : ReqRefresh(r)
    \/ \E r \in DOMAIN reqs : ReqLogin(r)
    \/ \E r \in DOMAIN reqs : ReqSend(r)
    \/ \E o \in ObjIds : SaveTask(o)
    \/ Tick
    \/ AvailabilityQuery
    \/ \E name \in Names : UsageQuery(name)
    \/ BatchStart
    \/ BatchStep
    \/ ReloadAccounts
    \/ \E name \in Names : AddAccount(name)
    \/ DeleteBlocked

Spec == Init /\ [][Next]_vars

\* the adapter of one 200 response, the rest of the server at rest
InitStream ==
    /\ StartUp({[strategy |-> "round-robin", retry_429_interval |-> 1,
                 split |-> FALSE]},
               {BlockedDirectory},
               {[request |-> 0, admin |-> 0, fault |-> 0, tick |-> 0,
                 overlap |-> 1]})
    /\ sse \in {[NoStream EXCEPT
                    !.state = "open", !.adapter = a, !.parser = p,
                    !.frames = IF a = "anthropic_stream"
                               THEN <<MessageStart>> ELSE <<>>] :
                   a \in Adapters, p \in BOOLEAN}

NextStream ==
    \/ StreamEvent
    \/ StreamEnd
    \/ StreamError

SpecStream == InitStream /\ [][NextStream]_vars

\* ---------------------------------------------------------------- claims
\* C1: whatever the strategy, an account that get_next_account returns is a
\* pool member for which is_available() is true at the time of the pick.
C1_PickedIsAvailable ==
    \A s \in Strategies :
      \A p \in get_next_account(objs, pool, current_index, s, now) :
        p.res \notin {NoAcct, IndexErr} =>
          /\ p.res \in Range(pool)
          /\ is_available(objs[p.res], now).ok

\* a retry has picked an account while another pool member is blocked
C1_Witness ==
    \E r \in DOMAIN reqs :
      /\ reqs[r].acct # NoAcct
      /\ reqs[r].selections = 2
      /\ \E i \in DOMAIN pool :
           /\ pool[i] # reqs[r].acct
           /\ objs[pool[i]].status_code = "403"

\* C2: when the AI endpoint answers 403 to the account A a request holds
\* (streaming or unary, either endpoint), attempts remain and another
\* account is available, A is marked "403", a save of A is scheduled and
\* the same request goes on with another account of the pool.
C2_FailoverOn403 ==
    [][\A r \in DOMAIN reqs :
         (/\ reqs[r].pc = "send"
          /\ reqs'[r] # reqs[r]
          /\ StatusOf(reqs'[r].answer) = "403"
          /\ reqs[r].attempt < MaxRetries - 1
          /\ \E i \in DOMAIN pool :
               /\ pool[i] # reqs[r].acct
               /\ is_available(objs[pool[i]], now).ok)
         => /\ objs'[reqs[r].acct].status_code = "403"
            /\ reqs[r].acct \in pendingSaves'
            /\ reqs'[r].pc # "done"
            /\ reqs'[r].acct \in Range(pool) \ {reqs[r].acct}]_vars

\* C3 as stated: a request makes at most 3 selections and at most 3 upstream
\* AI POSTs, whatever its message list and the split_toolcall_result setting.
C3_RetryBound ==
    \A r \in DOMAIN reqs :
      /\ reqs[r].selections <= MaxRetries
      /\ reqs[r].posts <= MaxRetries

\* C3 amended: at most 3 selections, and at most 3 times the POSTs of one
\* chat_completion call: one POST, or one per tool result when
\* split_toolcall_result is on and the request carries several tool results.
C3_RetryBoundAmended ==
    \A r \in DOMAIN reqs :
      /\ reqs[r].selections <= MaxRetries
      /\ reqs[r].posts <= MaxRetries * NPosts(reqs[r], settings.split)

\* a request that was retried until its third selection
C3_Witness ==
    \E r \in DOMAIN reqs :
      /\ reqs[r].selections = MaxRetries
      /\ reqs[r].posts >= 2

\* C4: an account with status_code "403" keeps it, and stays unavailable,
\* under every operation but a reload and the deletion of blocked accounts.
C4_BlockedStays ==
    [][(~ReloadAccounts /\ ~DeleteBlocked) =>
         \A i \in DOMAIN pool :
           objs[pool[i]].status_code = "403" =>
             /\ objs'[pool[i]].status_code = "403"
             /\ ~is_available(objs'[pool[i]], now').ok]_vars

\* C5: an enabled account marked 429 at last_attempt is unavailable while
\* less than the configured retry_429_interval has passed, and the first
\* query after that returns true and clears status_code and last_attempt.
C5_Recovery429 ==
    \A i \in DOMAIN pool :
      LET a == objs[pool[i]]
          q == is_available(a, now)
      IN  (a.enabled /\ a.status_code = "429" /\ a.last_attempt # NoTime) =>
            IF now - a.last_attempt < settings.retry_429_interval
            THEN ~q.ok
            ELSE /\ q.ok
                 /\ q.acc.status_code = "none"
                 /\ q.acc.last_attempt = NoTime

\* C6: an enabled account with status_code "quota_exceeded" carries the
\* first instant of the month after its mark as reset instant (1 January
\* after a mark in December), and the first availability query at or after
\* that instant returns true, clears the status and zeroes quota_used, also
\* when the account was saved and the pool reloaded in between.
C6_QuotaReset ==
    \A i \in DOMAIN pool :
      LET a == objs[pool[i]]
          q == is_available(a, now)
      IN  (a.enabled /\ a.status_code = "quota_exceeded") =>
            /\ a.quota_reset_date # NoTime
            /\ a.quota_reset_date % MonthLen = 0
            /\ a.quota_reset_date <= NextReset(now)
            /\ IF now >= a.quota_reset_date
               THEN q.ok /\ q.acc.status_code = "none" /\ q.acc.quota_used = 0
               ELSE ~q.ok

\* C7: for every pool account in every reachable state, is_available() is
\* true iff the account is enabled and its status_code is null, or "429"
\* with the configured retry_429_interval elapsed since last_attempt, or
\* "quota_exceeded" with quota_reset_date reached.
C7_AvailableIff ==
    \A i \in DOMAIN pool :
      LET a == objs[pool[i]]
      IN  is_available(a, now).ok <=>
            /\ a.enabled
            /\ \/ a.status_code = "none"
               \/ /\ a.status_code = "429"
                  /\ a.last_attempt # NoTime
                  /\ now - a.last_attempt >= settings.retry_429_interval
               \/ /\ a.status_code = "quota_exceeded"
                  /\ a.quota_reset_date # NoTime
                  /\ now >= a.quota_reset_date

\* request r makes a selection in this step: it arrives, or it retries
Selects(r) ==
    /\ reqs'[r] # reqs[r]
    /\ \/ reqs[r].pc \in {"idle", "done"}
       \/ reqs'[r].attempt = reqs[r].attempt + 1

\* C8: a selection (first attempt or retry) that finds no pool account
\* available ends the request with HTTP 503 "no available accounts" in the
\* format of its endpoint, without a further upstream request.
C8_NoAccount503 ==
    [][\A r \in DOMAIN reqs :
         (/\ Selects(r)
          /\ \A i \in DOMAIN pool : ~is_available(objs'[pool[i]], now).ok)
         => /\ reqs'[r].pc = "done"
            /\ reqs'[r].code = 503
            /\ reqs'[r].kind = "unavailable"]_vars

\* C9: when the AI endpoint answers non-200 with a quota phrase in the body,
\* the account is marked "quota_exceeded" with the monthly reset instant, a
\* save of it is scheduled, and while attempts remain the request makes
\* another selection.
C9_QuotaFailover ==
    [][\A r \in DOMAIN reqs :
         (/\ reqs[r].pc = "send"
          /\ reqs'[r] # reqs[r]
          /\ Contains(reqs'[r].answer, "no remaining quota"))
         => /\ objs'[reqs[r].acct].status_code = "quota_exceeded"
            /\ objs'[reqs[r].acct].quota_reset_date = NextReset(now)
            /\ reqs[r].acct \in pendingSaves'
            /\ reqs[r].attempt < MaxRetries - 1 => Selects(r)]_vars

\* C10: when the token refresh, the login or the AI POST of a request times
\* out, the status_code of its account is unchanged, whatever the account
\* name, and while attempts remain the request is retried instead of failed.
C10_TransientFault ==
    [][\A r \in DOMAIN reqs :
         (/\ reqs[r].pc \in {"refresh", "login", "send"}
          /\ reqs'[r] # reqs[r]
          /\ reqs'[r].answer = <<"timeout">>)
         => /\ objs'[reqs[r].acct].status_code
                 = objs[reqs[r].acct].status_code
            /\ reqs[r].attempt < MaxRetries - 1 => Selects(r)]_vars

\* C11: the dispatcher selects again only after an account-scoped fault
\* (upstream 403 or 429, or a failed ensure_ready); a request in which
\* chat_completion finds no user message and no tool results is answered
\* with one HTTP 500, without another selection and without a change of any
\* account's status_code.
C11_ShapeError500 ==
    [][\A r \in DOMAIN reqs :
          /\ (/\ reqs[r].pc \in {"refresh", "login", "send"}
              /\ Selects(r))
             => \/ reqs[r].pc \in {"refresh", "login"}
                \/ StatusOf(reqs'[r].answer) \in {"403", "429"}
          /\ (/\ reqs[r].pc = "send"
              /\ reqs[r].shape = "empty"
              /\ reqs'[r] # reqs[r])
             => /\ reqs'[r].pc = "done"
                /\ reqs'[r].code = 500
                /\ reqs'[r].selections = reqs[r].selections
                /\ \A o \in ObjIds :
                      objs'[o].status_code = objs[o].status_code]_vars

\* the durable fields of the pool account in cell o are those of its file
Stored(fs, os, o) == fs[safe_name(os[o].name)] = to_config_dict(os[o])

\* C12: every step that changes the status_code or the last_refreshed of a
\* pool account (a mark, the lazy recovery, a successful token refresh)
\* writes the account's file or leaves a save of the account scheduled.
C12_ChangeIsSaved ==
    [][(~ReloadAccounts /\ ~DeleteBlocked) =>
         \A i \in DOMAIN pool :
            LET o == pool[i]
            IN  (\/ objs'[o].status_code # objs[o].status_code
                 \/ objs'[o].last_refreshed # objs[o].last_refreshed)
                => \/ o \in pendingSaves'
                   \/ Stored(files', objs', o)]_vars

C14_OneFilePerAccount ==
    /\ \A i, j \in DOMAIN pool :
          i # j => /\ objs[pool[i]].name # objs[pool[j]].name
                   /\ safe_name(objs[pool[i]].name)
                         # safe_name(objs[pool[j]].name)
    /\ \A i \in DOMAIN pool :
          files[safe_name(objs[pool[i]].name)].name = objs[pool[i]].name

\* request r holds an account and none of its upstream calls has answered
Picked(r) ==
    /\ reqs[r].pc \in {"refresh", "login", "send"}
    /\ reqs[r].acct # NoAcct
    /\ reqs[r].answer = <<>>

\* C15: two requests whose picks are concurrent hold different accounts,
\* unless the strategy is round-robin and the cursor went round the pool
\* (no other pool account is available).
C15_ConcurrentPicksDiffer ==
    \A r1, r2 \in DOMAIN reqs :
       (/\ r1 < r2
        /\ Picked(r1)
        /\ Picked(r2)
        /\ reqs[r1].acct = reqs[r2].acct)
       => /\ settings.strategy = "round-robin"
          /\ \A i \in DOMAIN pool :
                pool[i] # reqs[r1].acct
                => ~is_available(objs[pool[i]], now).ok

\* the accounts n consecutive _round_robin calls return
RECURSIVE Picks(_, _, _, _, _)
Picks(os, pl, idx, n, t) ==
    IF n = 0 THEN <<>>
    ELSE LET p == CHOOSE q \in _round_robin(os, pl, idx, t) : TRUE
         IN  <<p.res>> \o Picks(p.objs, pl, p.idx, n - 1, t)

Count(x, s) == Cardinality({i \in DOMAIN s : s[i] = x})

AllAvailable ==
    \A i \in DOMAIN pool : is_available(objs[pool[i]], now).ok

C17_QuotaAwareMax ==
    \A p \in _quota_aware(objs, pool, current_index, now) :
       p.res # NoAcct
       => \A i \in DOMAIN pool :
             is_available(objs[pool[i]], now).ok
             => p.objs[p.res].quota_limit - p.objs[p.res].quota_used
                   >= p.objs[pool[i]].quota_limit - p.objs[pool[i]].quota_used

\* request r gets the answer of an upstream AI POST in this step
Answered(r) ==
    /\ reqs[r].pc = "send"
    /\ reqs[r].shape # "empty"
    /\ reqs'[r] # reqs[r]

\* an answer other than 200 does not raise the counters of the account
NoCount(r) ==
    LET o == reqs[r].acct
    IN  (Answered(r) /\ StatusOf(reqs'[r].answer) # "200")
        => /\ objs'[o].request_count = objs[o].request_count
           /\ objs'[o].quota_used <= objs[o].quota_used

\* C18: a client request served by account A raises A.request_count and
\* A.quota_used by exactly 1 over the whole request and leaves the counters
\* of every other account alone; an attempt that ends in a non-200 answer
\* does not raise them.
C18_ServedCountsOnce ==
    [][\A r \in DOMAIN reqs :
          LET o == reqs[r].acct
          IN  /\ (Answered(r) /\ reqs'[r].kind = "ok" /\ reqs'[r].pc = "done")
                 => /\ reqs'[r].sent = 1
                    /\ objs'[o].request_count = objs[o].request_count + 1
                    /\ objs'[o].quota_used = objs[o].quota_used + 1
                    /\ \A q \in ObjIds \ {o} : objs'[q] = objs[q]
              /\ NoCount(r)]_vars

\* C18 as the code has it: every upstream POST answered 200 raises both
\* counters of the account by exactly 1 and touches no other account, a
\* served request has had NPosts such answers, and an answer other than 200
\* raises nothing.
C18_CountsPerPost ==
    [][\A r \in DOMAIN reqs :
          LET o == reqs[r].acct
          IN  /\ (Answered(r) /\ StatusOf(reqs'[r].answer) = "200")
                 => /\ objs'[o].request_count = objs[o].request_count + 1
                    /\ objs'[o].quota_used = objs[o].quota_used + 1
                    /\ \A q \in ObjIds \ {o} : objs'[q] = objs[q]
              /\ (Answered(r) /\ reqs'[r].kind = "ok" /\ reqs'[r].pc = "done")
                 => reqs'[r].sent = NPosts(reqs[r], settings.split)
              /\ NoCount(r)]_vars

\* a request with several tool results was served with the split on
C18_Witness ==
    \E r \in DOMAIN reqs :
       /\ reqs[r].pc = "done"
       /\ reqs[r].kind = "ok"
       /\ reqs[r].shape = "tools"
       /\ settings.split
       /\ objs[reqs[r].served].request_count = NumToolResults
       /\ objs[reqs[r].served].quota_used = NumToolResults

\* C19: for every account name the three counters never decrease, and the
\* account file holds none of them.
C19_CountersMonotone ==
    [][/\ \A i \in DOMAIN pool, j \in DOMAIN pool' :
             objs[pool[i]].name = objs'[pool'[j]].name
             => /\ objs'[pool'[j]].request_count >= objs[pool[i]].request_count
                /\ objs'[pool'[j]].quota_used >= objs[pool[i]].quota_used
                /\ objs'[pool'[j]].error_count >= objs[pool[i]].error_count
       /\ \A k \in DOMAIN files' :
             DOMAIN files'[k]
                \cap {"request_count", "quota_used", "error_count"} = {}]_vars

\* the frames of kind k, in the order the adapter emitted them
FramesOf(f, k) == SelectSeq(f, LAMBDA x : x[1] = k)

\* the non-empty text deltas of the upstream events, in upstream order
TextDeltas(events) ==
    SelectSeq(events, LAMBDA e : e[1] \in TextActions /\ e[2] # "")

\* C20: when the adapter has consumed the events of a 200 response, its
\* output has a role chunk before any content or tool_calls chunk, the
\* content chunks in upstream order, exactly one chunk with a finish_reason
\* of stop, length or tool_calls, and [DONE] as the last frame right after
\* it.
C20_OpenAIFraming ==
    (sse.adapter = "openai_stream" /\ sse.state \in {"returned", "ended"})
    => LET f == sse.frames
       IN  /\ \A i \in DOMAIN f :
                 f[i][1] \in {"content", "tool_calls"}
                 => \E j \in DOMAIN f : j < i /\ f[j][1] = "role"
           /\ Len(FramesOf(f, "content")) = Len(TextDeltas(sse.events))
           /\ \A i \in DOMAIN FramesOf(f, "content") :
                 FramesOf(f, "content")[i][2] = TextDeltas(sse.events)[i][2]
           /\ Len(FramesOf(f, "finish")) = 1
           /\ Len(f) >= 2
           /\ f[Len(f)] = <<"done">>
           /\ f[Len(f) - 1][1] = "finish"
           /\ f[Len(f) - 1][2] \in {"stop", "length", "tool_calls"}

\* -------------------------------------------------------- the admin routes
\* the admin routes and the save tasks alone, no client request in flight,
\* on the directory that holds a "403" account
InitAdmin ==
    /\ StartUp({[strategy |-> "round-robin", retry_429_interval |-> 1,
                 split |-> FALSE]},
               {BlockedDirectory},
               {[request |-> 0, admin |-> 4, fault |-> 1, tick |-> 0,
                 overlap |-> 1]})
    /\ sse = NoStream

NextAdmin ==
    \/ \E o \in ObjIds : SaveTask(o)
    \/ \E name \in Names : UsageQuery(name)
    \/ ReloadAccounts
    \/ \E name \in Names : AddAccount(name)
    \/ DeleteBlocked

SpecAdmin == InitAdmin /\ [][NextAdmin]_vars

\* C27: delete-blocked removes from the pool and from disk exactly the
\* accounts whose status_code is "403" when it is called: afterwards no
\* pool account has status "403", the files of the removed accounts are
\* gone, and every other account is still in the pool, in the same relative
\* order, with its state and its file unchanged.
C27_DeleteBlockedFrame ==
    [][DeleteBlocked =>
         LET kept == SelectSeq(pool, LAMBDA o : objs[o].status_code # "403")
             gone == {o \in Range(pool) : objs[o].status_code = "403"}
         IN  /\ pool' = kept
             /\ \A o \in Range(pool') :
                  /\ objs'[o].status_code # "403"
                  /\ objs'[o] = objs[o]
                  /\ files'[safe_name(objs[o].name)]
                       = files[safe_name(objs[o].name)]
             /\ \A o \in gone : files'[safe_name(objs[o].name)] = NoFile]_vars

\* C28: once the dispatcher has handled a non-200 answer of the AI endpoint,
\* the state recorded on the account follows the HTTP status and the body:
\* "403" after a 403, "429" with last_attempt set after a 429,
\* "quota_exceeded" after another status whose body carries a quota phrase,
\* whatever else the body text mentions.
C28_StateFollowsResponse ==
    [][\A r \in DOMAIN reqs :
         (/\ reqs[r].pc = "send"
          /\ reqs'[r].posts = reqs[r].posts + 1
          /\ StatusOf(reqs'[r].answer) \in {"403", "429", "500"})
         => LET o == reqs[r].acct
                status == StatusOf(reqs'[r].answer)
                body == Tail(reqs'[r].answer)
            IN  /\ status = "403" => objs'[o].status_code = "403"
                /\ status = "429" => /\ objs'[o].status_code = "429"
                                     /\ objs'[o].last_attempt = now
                /\ (status = "500" /\ Contains(body, "no remaining quota"))
                     => objs'[o].status_code = "quota_exceeded"]_vars

\* C29: in every reachable state, right after a load or reload included, a
\* pool account whose status_code is "429" has its last_attempt set, and it
\* is unavailable as long as fewer than retry_429_interval minutes have
\* passed since last_attempt.
C29_RateLimitedHasAttempt ==
    \A o \in Range(pool) :
        objs[o].status_code = "429"
        => /\ objs[o].last_attempt # NoTime
           /\ now - objs[o].last_attempt < settings.retry_429_interval
                => ~is_available(objs[o], now).ok

\* the conversation_id of the first init event of a response
InitEvents(events) == SelectSeq(events, LAMBDA e : e[1] = "init")

\* C30: once the response to a client request has been delivered (a
\* streaming adapter has returned or a unary adapter has its response) and
\* the 200 upstream response contained an init event with a
\* conversation_id, the serving account's active_task_id is that id.
C30_ConversationIdCaptured ==
    (sse.state \in {"returned", "ended"} /\ InitEvents(sse.events) # <<>>)
    => sse.active_task_id = InitEvents(sse.events)[1][2]

\* the positions of the frames of one type
FramesAt(f, type) == {i \in DOMAIN f : f[i].type = type}

\* C21: in the output of the Anthropic streaming adapter, once the stream
\* is over, every content_block_start is followed by exactly one
\* content_block_stop with its index, which comes before message_stop, and
\* every content_block_stop follows a content_block_start with its index.
C21_BlocksMatched ==
    (sse.adapter = "anthropic_stream"
     /\ sse.state \in {"returned", "ended", "failed"})
    => LET f == sse.frames
       IN  /\ \A i \in FramesAt(f, "content_block_start") :
                 /\ Cardinality({j \in FramesAt(f, "content_block_stop") :
                                    j > i /\ f[j].index = f[i].index}) = 1
                 /\ \E k \in FramesAt(f, "message_stop") :
                       \A j \in FramesAt(f, "content_block_stop") : j < k
           /\ \A j \in FramesAt(f, "content_block_stop") :
                 \E i \in FramesAt(f, "content_block_start") :
                    i < j /\ f[i].index = f[j].index

\* the tool calls the upstream sent in a response: its increments put
\* together by index
RECURSIVE UpstreamCalls(_)
UpstreamCalls(events) ==
    IF events = <<>> THEN <<>>
    ELSE LET e == events[Len(events)]
             before == UpstreamCalls(SubSeq(events, 1, Len(events) - 1))
         IN  IF e[1] = "tool_call" THEN AccumulateToolCall(before, e[2])
             ELSE before

\* a completed call: it has its id, its name and arguments that parse
Completed(tc) ==
    /\ tc.id # ""
    /\ tc.name # ""
    /\ json_loads(tc.arguments) # JSONDecodeError

\* C22: when the Anthropic streaming adapter has delivered a response, for
\* each completed upstream tool call its output holds, next to each other
\* and in this order, a content_block_start of type tool_use with the id
\* prefixed by toolu_ once and the name of the call, one input_json_delta
\* with the arguments, and the content_block_stop; the output ends with
\* message_delta of stop_reason "tool_use" and message_stop; and a
\* stop_reason "tool_use" comes with at least one tool_use block.
C22_ToolUseBlocks ==
    (sse.adapter = "anthropic_stream" /\ sse.state \in {"returned", "ended"})
    => LET f == sse.frames
           calls == UpstreamCalls(sse.events)
           done == {c \in DOMAIN calls : Completed(calls[c])}
           uses == {i \in FramesAt(f, "content_block_start") :
                       f[i].data[1] = "tool_use"}
       IN  /\ \A c \in done :
                 /\ Cardinality(
                      {i \in uses :
                          /\ f[i].data[2] =
                               IF calls[c].id \in PrefixedIds
                               THEN calls[c].id
                               ELSE "toolu_" \o calls[c].id
                          /\ f[i].data[3] = calls[c].name
                          /\ i + 2 <= Len(f)
                          /\ f[i + 1].type = "content_block_delta"
                          /\ f[i + 1].index = f[i].index
                          /\ f[i + 1].data[1] = "input_json_delta"
                          /\ json_loads(f[i + 1].data[2])
                               = json_loads(calls[c].arguments)
                          /\ f[i + 2] = BlockStop(f[i].index)}) = 1
                 /\ Len(f) >= 2
                 /\ f[Len(f) - 1] = MessageDelta("tool_use")
                 /\ f[Len(f)] = MessageStop
           /\ (\E i \in DOMAIN f : f[i] = MessageDelta("tool_use"))
                 => uses # {}

\* the indexes of the blocks that are started and not stopped
OpenBlocks(f) ==
    {f[i].index : i \in FramesAt(f, "content_block_start")}
    \ {f[j].index : j \in FramesAt(f, "content_block_stop")}

\* C23: when the upstream event stream raises under a streaming adapter,
\* the adapter ends normally: the OpenAI adapter adds a chunk with
\* finish_reason "stop" and [DONE]; the Anthropic adapter adds the
\* content_block_stop of the block that is open, if any, then
\* message_delta and message_stop.
C23_TerminalFrames ==
    [][(/\ sse.state = "open"
        /\ sse'.state \in {"failed", "raised"}
        /\ sse.adapter \in {"openai_stream", "anthropic_stream"})
       => /\ sse'.state = "failed"
          /\ sse.adapter = "openai_stream"
               => sse'.frames = sse.frames \o <<<<"finish", "stop">>,
                                                <<"done">>>>
          /\ sse.adapter = "anthropic_stream"
               => \E stops \in {<<>>} \cup {<<BlockStop(i)>> :
                                               i \in OpenBlocks(sse.frames)},
                     reason \in {"end_turn", "tool_use", "max_tokens"} :
                     /\ sse'.frames = sse.frames \o stops
                                      \o <<MessageDelta(reason), MessageStop>>
                     /\ OpenBlocks(sse'.frames) = {}]_vars

\* the Anthropic adapter has closed an open text block after a failure,
\* and its output ends with message_delta and message_stop
C23_Witness ==
    /\ sse.adapter = "anthropic_stream"
    /\ sse.state = "failed"
    /\ Len(sse.frames) >= 5
    /\ sse.frames[Len(sse.frames) - 3].type = "content_block_delta"
    /\ sse.frames[Len(sse.frames) - 2].type = "content_block_stop"
    /\ sse.frames[Len(sse.frames)] = MessageStop

\* the calls the client is given: <<name, arguments value>> of each
\* tool_calls chunk, tool call of the message, or tool_use block
Delivered(st) ==
    IF st.adapter = "openai_stream"
    THEN {<<st.frames[i][2].name, json_loads(st.frames[i][2].arguments)>> :
             i \in {j \in DOMAIN st.frames : st.frames[j][1] = "tool_calls"}}
    ELSE IF st.adapter = "openai_unary"
    THEN {<<st.response[1].tool_calls[i].name,
            json_loads(st.response[1].tool_calls[i].arguments)>> :
             i \in DOMAIN st.response[1].tool_calls}
    ELSE IF st.adapter = "anthropic_stream"
    THEN {<<st.frames[i].data[3], json_loads(st.frames[i + 1].data[2])>> :
             i \in {j \in FramesAt(st.frames, "content_block_start") :
                       st.frames[j].data[1] = "tool_use"}}
    ELSE {<<st.response[1].content[i].name, st.response[1].content[i].input>> :
             i \in {j \in DOMAIN st.response[1].content :
                       st.response[1].content[j].type = "tool_use"}}

\* C24: when an adapter has delivered a response in which the upstream
\* made a completed call of call_mcp_tool with arguments
\* {"name": n, "args": a}, n not empty, the client is given a call of tool
\* n with arguments a and no call named call_mcp_tool.
C24_GatewayUnwrapped ==
    sse.state \in {"returned", "ended"}
    => \A tc \in Range(UpstreamCalls(sse.events)) :
          (/\ Completed(tc)
           /\ tc.name = "call_mcp_tool"
           /\ GetName(json_loads(tc.arguments)) # "")
          => /\ <<GetName(json_loads(tc.arguments)),
                  GetArgs(json_loads(tc.arguments))>> \in Delivered(sse)
             /\ \A d \in Delivered(sse) : d[1] # "call_mcp_tool"

\* C25: on every tool call the OpenAI unary adapter hands to it,
\* transform_mcp_tool_call returns the call unchanged when its name is not
\* call_mcp_tool, when its arguments do not parse or when they carry no
\* name; otherwise it returns a call with the same id, the wrapped name as
\* name and, as arguments, the JSON text of the wrapped args
\* ('{"q":"x"}' for the args {"q":"x"} of search).
C25_GatewayReference ==
    (sse.adapter = "openai_unary" /\ sse.state = "ended")
    => \A i \in DOMAIN sse.tool_calls :
          LET tc == sse.tool_calls[i]
              out == sse.response[1].tool_calls[i]
              value == json_loads(tc.arguments)
          IN  IF \/ tc.name # "call_mcp_tool"
                 \/ value = JSONDecodeError
                 \/ GetName(value) = ""
              THEN out = tc
              ELSE /\ out.id = tc.id
                   /\ out.name = GetName(value)
                   /\ out.arguments = GetArgs(value)

\* --------------------------------------------------------- stream decoder
\* A response body is a sequence of tokens: "\n" ends a line, and the first
\* token of a line says what the line is.
NL == "\n"
DataLine(payload) == <<"data:", payload, NL>>

\* the frames of a valid body: an event whose base64 needs padding, an
\* event led by an event: line, an event whose data spans two data: lines,
\* and a comment line
EventFrames ==
    {DataLine("QQ") \o <<NL>>,
     <<"event:", NL>> \o DataLine("QUJD") \o <<NL>>,
     DataLine("QUJD") \o DataLine("QQ") \o <<NL>>,
     <<":", NL>>}

DoneFrame == DataLine("[DONE]") \o <<NL>>

MaxFrames == 2
MaxChunk == 3

RECURSIVE FrameSequences(_)
FrameSequences(n) ==
    IF n = 0 THEN {<<>>}
    ELSE FrameSequences(n - 1)
         \cup {b \o f : b \in FrameSequences(n - 1), f \in EventFrames}

\* the valid bodies: up to MaxFrames frames, then possibly data: [DONE]
Streams == FrameSequences(MaxFrames) \cup {b \o DoneFrame : b \in FrameSequences(MaxFrames)}

\* current_data padded with "=" to a multiple of 4
Pad(s) ==
    IF Len(s) % 4 = 0 THEN s
    ELSE IF Len(s) % 4 = 1 THEN s \o "==="
    ELSE IF Len(s) % 4 = 2 THEN s \o "=="
    ELSE s \o "="

DecodeError == "binascii.Error"

\* base64.urlsafe_b64decode on the padded texts that occur
urlsafe_b64decode(s) ==
    IF s = "QQ==" THEN "A"
    ELSE IF s = "QUJD" THEN "ABC"
    ELSE IF s = "QUJDQQ==" THEN "ABCA"
    ELSE DecodeError

\* protobuf_to_dict, and the raw_payload the decoder attaches
protobuf_to_dict(bytes) == [event |-> "ResponseEvent", raw_payload |-> bytes]

NewDecoder(s1, s2) ==
    [state |-> "reading", s1 |-> s1, s2 |-> s2, rest |-> s1 \o s2,
     buffer |-> <<>>, current_data |-> "", out |-> <<>>, split |-> FALSE]

\* a blank line without the reset of current_data
EndOfEventKeepsData(d) ==
    [d EXCEPT !.out = IF urlsafe_b64decode(Pad(d.current_data)) = DecodeError
                      THEN @
                      ELSE Append(@, protobuf_to_dict(
                                        urlsafe_b64decode(
                                           Pad(d.current_data))))]

\* a blank line with data accumulated: decode, yield, reset
EndOfEvent(d) ==
    [d EXCEPT !.out = IF urlsafe_b64decode(Pad(d.current_data)) = DecodeError
                      THEN @
                      ELSE Append(@, protobuf_to_dict(
                                        urlsafe_b64decode(
                                           Pad(d.current_data)))),
              !.current_data = ""]

\* one complete line of the body
Line(d, line) ==
    IF line = <<>>
    THEN IF d.current_data # "" THEN EndOfEvent(d) ELSE d
    ELSE IF line[1] = ":" \/ line[1] = "event:" THEN d
    ELSE IF line[1] = "data:"
    THEN IF Join(Tail(line)) = "[DONE]" THEN [d EXCEPT !.state = "returned"]
         ELSE [d EXCEPT !.current_data = @ \o Join(Tail(line))]
    ELSE d

\* while b"\n" in buffer: split off the first line and handle it
RECURSIVE ProcessLines(_)
ProcessLines(d) ==
    IF d.state = "returned" \/ \A i \in DOMAIN d.buffer : d.buffer[i] # NL
    THEN d
    ELSE LET n == CHOOSE i \in DOMAIN d.buffer :
                     /\ d.buffer[i] = NL
                     /\ \A j \in 1 .. (i - 1) : d.buffer[j] # NL
         IN  ProcessLines(
                Line([d EXCEPT !.buffer = SubSeq(@, n + 1, Len(@))],
                     SubSeq(d.buffer, 1, n - 1)))

\* the body is exhausted: what is left in current_data is decoded
EndOfBody(d) ==
    [(IF d.current_data # "" THEN EndOfEvent(d) ELSE d)
        EXCEPT !.state = "ended"]

\* _parse_sse_stream reads the next chunk of the body
DecoderRead ==
    /\ sse.state = "reading"
    /\ \E n \in 1 .. MaxChunk :
          /\ n <= Len(sse.rest)
          /\ LET d == ProcessLines(
                         [sse EXCEPT !.buffer = @ \o SubSeq(sse.rest, 1, n),
                                     !.rest = SubSeq(@, n + 1, Len(@))])
             IN  sse' = [d EXCEPT !.split = @ \/ d.buffer # <<>>]
    /\ UNCHANGED <<objs, pool, current_index, files, pendingSaves, now, reqs,
                   batch, settings, budget>>

\* aiter_bytes is exhausted
DecoderEnd ==
    /\ sse.state = "reading"
    /\ sse.rest = <<>>
    /\ sse' = EndOfBody(sse)
    /\ UNCHANGED <<objs, pool, current_index, files, pendingSaves, now, reqs,
                   batch, settings, budget>>

\* the decoder on the body s1 ++ s2 of one response, the rest of the server
\* at rest
InitDecoder ==
    /\ StartUp({[strategy |-> "round-robin", retry_429_interval |-> 1,
                 split |-> FALSE]},
               {BlockedDirectory},
               {[request |-> 0, admin |-> 0, fault |-> 0, tick |-> 0,
                 overlap |-> 1]})
    /\ sse \in {NewDecoder(s1, s2) : s1 \in Streams, s2 \in Streams}

NextDecoder ==
    \/ DecoderRead
    \/ DecoderEnd

SpecDecoder == InitDecoder /\ [][NextDecoder]_vars

\* the events of a body read in one piece
Events(s) == EndOfBody(ProcessLines([NewDecoder(s, <<>>) EXCEPT
                                        !.buffer = s, !.rest = <<>>])).out

\* C26: the events the decoder yields for the concatenation of two valid
\* bodies are the events of the first followed by the events of the
\* second, however the bytes are split into chunks.
C26_Concatenation ==
    sse.state \in {"ended", "returned"}
    => sse.out = Events(sse.s1) \o Events(sse.s2)

\* C26 amended: the same for a first body that carries no data: [DONE]
\* line.
C26_ConcatenationUpToDone ==
    (/\ sse.state \in {"ended", "returned"}
     /\ \A i \in DOMAIN sse.s1 : sse.s1[i] # "[DONE]")
    => sse.out = Events(sse.s1) \o Events(sse.s2)

\* two bodies with events, the first without [DONE], were decoded from
\* chunks that cut lines
C26_Witness ==
    /\ sse.state \in {"ended", "returned"}
    /\ \A i \in DOMAIN sse.s1 : sse.s1[i] # "[DONE]"
    /\ Events(sse.s1) # <<>>
    /\ Events(sse.s2) # <<>>
    /\ sse.split
    /\ Len(sse.out) = Len(Events(sse.s1)) + Len(Events(sse.s2))

\* ------------------------------------------------------------------- C36
\* C36: whenever the pool is non-empty the round-robin cursor is a valid
\* index into it (0 <= current_index < number of accounts), after any
\* interleaving of selections, add and delete-blocked, so that
\* self.accounts[self.current_index] never raises IndexError.
C36_CursorInPool ==
    pool # <<>> => (current_index >= 0 /\ current_index < Len(pool))

\* ------------------------------------------------------------------- C37
\* C37: while a client request is being served, the account it uses gets
\* status_code "403" only in a step in which an upstream endpoint (token
\* refresh, login or AI call) answered that request with HTTP 403; a 429,
\* a 5xx, a timeout, a failure of ensure_ready, an error text or an account
\* name never block an account.
C37_BlockedOnlyOn403 ==
    [][\A r \in DOMAIN reqs :
         (/\ reqs[r].pc \in {"refresh", "login", "send"}
          /\ reqs'[r] # reqs[r]
          /\ objs[reqs[r].acct].status_code # "403"
          /\ objs'[reqs[r].acct].status_code = "403")
         => StatusOf(reqs'[r].answer) = "403"]_vars

\* ------------------------------------------------------------------- C38
\* C38: when a request in flight marks its account 403 or 429, a reload of
\* the pool having run before the mark or not, every account of that name
\* in the pool used for selection carries the same status_code once the
\* mark is made, and the retry that follows does not select that account.
C38_MarkSurvivesReload ==
    [][\A r \in DOMAIN reqs :
         LET o == reqs[r].acct
         IN  (/\ reqs[r].pc \in {"refresh", "login", "send"}
              /\ reqs'[r] # reqs[r]
              /\ objs'[o].status_code \in {"403", "429"}
              /\ objs'[o].status_code # objs[o].status_code)
             => /\ \A i \in DOMAIN pool' :
                     objs'[pool'[i]].name = objs[o].name
                     => objs'[pool'[i]].status_code = objs'[o].status_code
                /\ reqs'[r].acct # NoAcct
                     => objs'[reqs'[r].acct].name # objs[o].name]_vars

\* ------------------------------------------------------------------- C39
\* C39: every account in the pool, loaded from the directory or appended by
\* POST /accounts/add, uses the configured retry_429_interval, so that two
\* accounts marked 429 at the same instant become available together.
C39_PoolInterval ==
    \A o \in Range(pool) :
        objs[o].retry_429_interval = settings.retry_429_interval

\* ------------------------------------------------------------------- C35
\* the tool-call increments among the events of a response
ToolEvents(events) == SelectSeq(events, LAMBDA e : e[1] = "tool_call")

\* the tool calls a client puts together from the tool_calls chunks of a
\* stream, by index (0 for a chunk that names none)
RECURSIVE Reconstructed(_)
Reconstructed(frames) ==
    IF frames = <<>> THEN <<>>
    ELSE LET f == frames[Len(frames)]
             before == Reconstructed(SubSeq(frames, 1, Len(frames) - 1))
         IN  IF f[1] = "tool_calls"
             THEN AccumulateToolCall(before,
                     [index |-> IF "index" \in DOMAIN f[2]
                                THEN f[2].index ELSE 0,
                      id |-> f[2].id, type |-> f[2].type,
                      name |-> f[2].name, arguments |-> f[2].arguments])
             ELSE before

\* C35: in the OpenAI streaming adapter, when a call_mcp_tool call arrives
\* as one increment carrying the id and the name and later increments
\* carrying the rest of the arguments, every increment being handled by the
\* parser, the tool calls a client reconstructs from the streamed chunks
\* equal (id, name, arguments value) the tool calls of the OpenAI unary
\* response for the same upstream events.
C35_DeferredUnwrap ==
    LET te == ToolEvents(sse.events)
        calls == UpstreamCalls(sse.events)
        streamed == Reconstructed(sse.frames)
        unary == [i \in DOMAIN calls |-> transform_mcp_tool_call(calls[i])]
    IN  (/\ sse.adapter = "openai_stream"
         /\ sse.state \in {"returned", "ended"}
         /\ Len(te) >= 2
         /\ te[1][2].name = "call_mcp_tool"
         /\ \A i \in 2 .. Len(te) :
               te[i][2].id = "" /\ te[i][2].name = ""
                  /\ te[i][2].index = te[1][2].index
         /\ Completed(calls[1])
         /\ GetName(json_loads(calls[1].arguments)) # ""
         /\ Len(SelectSeq(sse.frames, LAMBDA f : f[1] = "tool_calls"))
               = Len(te))
        => /\ Len(streamed) = Len(unary)
           /\ \A i \in DOMAIN unary :
                 /\ streamed[i].id = unary[i].id
                 /\ streamed[i].name = unary[i].name
                 /\ json_loads(streamed[i].arguments)
                       = json_loads(unary[i].arguments)

\* -------------------------------------------------------- request builder
\* WarpClient.chat_completion from the message list to the upstream
\* requests, and build_request_bytes of warp2protobuf.core.protobuf.  A
\* text is a string, a query is the sequence of its pieces: the lines and
\* the "\n\n" that "\n\n".join puts between them.
NoContent == "<None>"
Sep == "\n\n"

\* the byte patterns _remove_supported_tools looks for, in hex; a text is
\* named by the hex of its bytes where it is one of them
supported_tools_pattern == "4a1306070c08090f0e000b100a141113120203010d"
client_supported_tools_pattern == "b201070a1406070c0201"

\* content or ""
OrEmpty(content) == IF content = NoContent THEN "" ELSE content

Msg(role, content, tool_call_id, tool_calls) ==
    [role |-> role, content |-> content, tool_call_id |-> tool_call_id,
     tool_calls |-> tool_calls]

ToolCall(id) == [id |-> id, name |-> "get_weather", arguments |-> VCity]

\* the messages a client dialog is made of
DialogMessages ==
    {Msg("user", "hi", "", <<>>),
     Msg("user", supported_tools_pattern, "", <<>>),
     Msg("assistant", "yo", "", <<>>),
     Msg("assistant", NoContent, "", <<ToolCall("t1"), ToolCall("t2")>>),
     Msg("tool", "r1", "t1", <<>>),
     Msg("tool", "r2", "t2", <<>>)}

MaxDialog == 4
Dialogs == UNION {[1 .. n -> DialogMessages] : n \in 1 .. MaxDialog}

Models == {"claude-4-sonnet", "gpt-5"}

\* settings.get('max_tool_results', 10), settings.get('max_history_messages',
\* 20), settings.get('split_toolcall_result', False)
DefaultMaxToolResults == 10
DefaultMaxHistoryMessages == 20
BuilderSettings ==
    {[max_tool_results |-> DefaultMaxToolResults,
      max_history_messages |-> DefaultMaxHistoryMessages,
      split_toolcall_result |-> FALSE],
     [max_tool_results |-> DefaultMaxToolResults,
      max_history_messages |-> DefaultMaxHistoryMessages,
      split_toolcall_result |-> TRUE],
     [max_tool_results |-> 1, max_history_messages |-> 1,
      split_toolcall_result |-> TRUE]}

\* the elements of s at the positions where keep is true, in order
RECURSIVE Filter(_, _)
Filter(s, keep) ==
    IF s = <<>> THEN <<>>
    ELSE LET n == Len(s)
             before == Filter(SubSeq(s, 1, n - 1),
                              [i \in 1 .. (n - 1) |-> keep[i]])
         IN  IF keep[n] THEN Append(before, s[n]) ELSE before

\* s[-n:]
LastN(s, n) == IF Len(s) > n THEN SubSeq(s, Len(s) - n + 1, Len(s)) ELSE s

\* the position of the last user message, 0 when there is none
last_user_idx(messages) ==
    IF \E i \in DOMAIN messages : messages[i].role = "user"
    THEN CHOOSE i \in DOMAIN messages :
            /\ messages[i].role = "user"
            /\ \A j \in DOMAIN messages :
                  messages[j].role = "user" => j <= i
    ELSE 0

\* the tool messages after the last user message
tool_results(messages) ==
    LET found == Filter(messages,
                    [i \in DOMAIN messages |->
                        /\ messages[i].role = "tool"
                        /\ i > last_user_idx(messages)])
    IN  [k \in DOMAIN found |->
            Msg("tool", OrEmpty(found[k].content), found[k].tool_call_id,
                <<>>)]

\* the last user message, unless the dialog ends with a tool message
user_message(messages) ==
    LET i == last_user_idx(messages)
    IN  IF i = 0 \/ messages[Len(messages)].role = "tool" THEN ""
        ELSE OrEmpty(messages[i].content)

\* the user and assistant messages other than the last user message
history_messages(messages) ==
    Filter(messages,
           [i \in DOMAIN messages |->
               LET m == messages[i]
               IN  /\ i # last_user_idx(messages)
                   /\ \/ m.role = "user" /\ m.content \notin {"", NoContent}
                      \/ m.role = "assistant"
                           /\ (m.content # NoContent \/ m.tool_calls # <<>>)])

\* the tool calls of the assistant messages, in dialog order
RECURSIVE AssistantToolCalls(_)
AssistantToolCalls(messages) ==
    IF messages = <<>> THEN <<>>
    ELSE IF Head(messages).role = "assistant"
    THEN Head(messages).tool_calls \o AssistantToolCalls(Tail(messages))
    ELSE AssistantToolCalls(Tail(messages))

\* accumulated_history of the split branch: the history, then for each
\* assistant tool call that has a result, in dialog order, a tool message
\* with the content the result map holds for that id (the last one)
accumulated_history(messages, history, results) ==
    LET calls == AssistantToolCalls(messages)
        known == SelectSeq(calls,
                    LAMBDA tc : \E k \in DOMAIN results :
                                   results[k].tool_call_id = tc.id)
        last(id) == CHOOSE k \in DOMAIN results :
                       /\ results[k].tool_call_id = id
                       /\ \A j \in DOMAIN results :
                             results[j].tool_call_id = id => j <= k
    IN  history \o [i \in DOMAIN known |->
                       Msg("tool", results[last(known[i].id)].content,
                           known[i].id, <<>>)]

\* get_model_config(model).get("base_model", "auto-genius") of
\* warp2protobuf.config.models: each known model names its own base
get_model_config(model) ==
    IF model \in Models THEN model ELSE "auto-genius"

\* the model the request template was recorded with
TemplateModel == "claude-4-5-opus"

tool_types == <<6, 7, 12, 8, 9, 15, 14, 0, 11, 16, 10, 20, 17, 19, 18, 2, 3, 1, 13>>
TemplateClientTools == <<10, 20, 6, 7, 12, 2, 1>>
ClientTools == <<10, 20, 6, 7, 12, 9, 2, 1>>

system_prompt == "IMPORTANT INSTRUCTIONS: ..."
implicit_instruction ==
    "User: Please analyze the tool results above and provide your response."

\* an upstream request: the fields the serialized bytes decode to, and
\* whether they decode at all (the length prefixes match the contents)
Request(mode, query, is_new_conversation, base, supported, client) ==
    [mode |-> mode, query |-> query,
     is_new_conversation |-> is_new_conversation, base |-> base,
     supported_tools |-> supported, client_supported_tools |-> client,
     well_formed |-> TRUE]

\* the first occurrence of piece removed from a query
RemoveFirst(query, piece) ==
    LET k == CHOOSE k \in DOMAIN query :
                /\ query[k] = piece
                /\ \A j \in DOMAIN query : query[j] = piece => k <= j
    IN  SubSeq(query, 1, k - 1) \o SubSeq(query, k + 1, Len(query))

\* _remove_supported_tools: each pattern is cut out where bytes.find finds
\* it first, and the query precedes the settings in the bytes; the length
\* byte of the settings is reduced by what was cut
_remove_supported_tools(r) ==
    LET r1 == IF Contains(r.query, supported_tools_pattern)
              THEN [r EXCEPT !.query = RemoveFirst(@, supported_tools_pattern),
                             !.well_formed = FALSE]
              ELSE [r EXCEPT !.supported_tools = <<>>]
    IN  IF Contains(r1.query, client_supported_tools_pattern)
        THEN [r1 EXCEPT
                !.query = RemoveFirst(@, client_supported_tools_pattern),
                !.well_formed = FALSE]
        ELSE [r1 EXCEPT !.client_supported_tools = <<>>]

\* build_request_bytes_from_template
build_request_bytes_from_template(user_text, model, disable_warp_tools) ==
    LET result == Request("template", <<user_text>>, TRUE, TemplateModel,
                          tool_types, TemplateClientTools)
    IN  IF disable_warp_tools THEN _remove_supported_tools(result)
        ELSE result

\* "\n\n".join(context_parts)
RECURSIVE JoinLines(_)
JoinLines(context_parts) ==
    IF context_parts = <<>> THEN <<>>
    ELSE IF Len(context_parts) = 1 THEN context_parts
    ELSE <<Head(context_parts), Sep>> \o JoinLines(Tail(context_parts))

\* '; '.join of "Called {name} with args: {arguments}"
RECURSIVE ToolCallsDesc(_)
ToolCallsDesc(tool_calls) ==
    IF tool_calls = <<>> THEN ""
    ELSE "Called " \o Head(tool_calls).name \o " with args: "
         \o Head(tool_calls).arguments
         \o (IF Len(tool_calls) > 1 THEN "; " ELSE "")
         \o ToolCallsDesc(Tail(tool_calls))

\* the line of one history message; with_calls is true in the branch that
\* describes the tool calls of an assistant message
ContextPart(msg, with_calls) ==
    LET content == OrEmpty(msg.content)
    IN  IF msg.role = "user" THEN "User: " \o content
        ELSE IF msg.role = "assistant"
        THEN IF with_calls /\ msg.tool_calls # <<>>
             THEN "Assistant: " \o content \o "\nTool calls: "
                  \o ToolCallsDesc(msg.tool_calls)
             ELSE "Assistant: " \o content
        ELSE "Tool result (" \o msg.tool_call_id \o "): " \o content

\* build_request_bytes_with_history
build_request_bytes_with_history(user_text, model, disable_warp_tools, history, task_id, results) ==
    IF history = <<>> /\ task_id = "" /\ results = <<>>
    THEN build_request_bytes_from_template(user_text, model,
                                           disable_warp_tools)
    ELSE
      LET base == get_model_config(model)
          supported == IF disable_warp_tools THEN <<>> ELSE tool_types
          query ==
            IF results # <<>>
            THEN JoinLines(
                   [i \in DOMAIN history |-> ContextPart(history[i], TRUE)]
                   \o [i \in DOMAIN results |->
                          ContextPart(results[i], TRUE)]
                   \o <<IF user_text # "" THEN "User: " \o user_text
                        ELSE implicit_instruction>>)
            ELSE IF history # <<>>
            THEN JoinLines([i \in DOMAIN history |->
                               ContextPart(history[i], FALSE)])
                 \o (IF user_text # ""
                     THEN <<Sep, "User: " \o user_text>> ELSE <<>>)
            ELSE IF disable_warp_tools
            THEN <<system_prompt, Sep, user_text>>
            ELSE <<user_text>>
      IN  Request("history", query, results = <<>>, base, supported,
                  ClientTools)

\* build_request_bytes
build_request_bytes(user_text, model, disable_warp_tools, history, task_id, results) ==
    IF history # <<>> \/ task_id # "" \/ results # <<>>
    THEN build_request_bytes_with_history(user_text, model,
                                          disable_warp_tools, history,
                                          task_id, results)
    ELSE build_request_bytes_from_template(user_text, model,
                                           disable_warp_tools)

\* the events of an upstream response that matter to chat_completion
BuilderEvents == {<<"init", "c1">>, <<"init", "c2">>, <<"text", "He">>}
MaxResponseEvents == 2
TaskIds == {"", "c0"}

\* chat_completion has been called on an account whose session is ready
NewBuilder(messages, model, disable_warp_tools, cfg, task_id) ==
    [state |-> "called", messages |-> messages, model |-> model,
     disable_warp_tools |-> disable_warp_tools, cfg |-> cfg,
     user_message |-> "", history |-> <<>>, results |-> <<>>,
     accumulated |-> <<>>, idx |-> 0, n |-> 0, requests |-> <<>>,
     task_ids |-> <<>>, events |-> <<>>, forwarded |-> <<>>,
     active_task_id |-> task_id]

\* the request number idx + 1 of the call: one of the split loop, or the
\* only one
NextRequest(b, idx) ==
    IF b.n > 1
    THEN build_request_bytes(
            IF idx = b.n - 1 THEN b.user_message ELSE "",
            b.model, b.disable_warp_tools,
            SubSeq(b.accumulated, 1,
                   IF Len(b.history) + idx + 1 < Len(b.accumulated)
                   THEN Len(b.history) + idx + 1 ELSE Len(b.accumulated)),
            b.active_task_id, <<>>)
    ELSE IF b.history = <<>> /\ b.results = <<>>
    THEN build_request_bytes(b.user_message, b.model, b.disable_warp_tools,
                             <<>>, "", <<>>)
    ELSE build_request_bytes(b.user_message, b.model, b.disable_warp_tools,
                             b.history, b.active_task_id, b.results)

Send(b, idx) ==
    [b EXCEPT !.state = "open", !.idx = idx, !.events = <<>>,
              !.requests = Append(@, NextRequest(b, idx)),
              !.task_ids = Append(@, b.active_task_id)]

\* chat_completion from the message list to its first POST
BuildFirst ==
    /\ sse.state = "called"
    /\ LET messages == sse.messages
           found == tool_results(messages)
           b == [sse EXCEPT
                   !.user_message = user_message(messages),
                   !.results = LastN(found, sse.cfg.max_tool_results),
                   !.history = LastN(history_messages(messages),
                                     sse.cfg.max_history_messages)]
           split == sse.cfg.split_toolcall_result /\ Len(b.results) > 1
           b1 == [b EXCEPT
                    !.n = IF split THEN Len(b.results) ELSE 1,
                    !.accumulated =
                       IF split
                       THEN accumulated_history(messages, b.history,
                                                b.results)
                       ELSE <<>>]
       IN  sse' = IF user_message(messages) = "" /\ found = <<>>
                  THEN [sse EXCEPT !.state = "raised"]
                  ELSE Send(b1, 0)
    /\ UNCHANGED <<objs, pool, current_index, files, pendingSaves, now, reqs,
                   batch, settings, budget>>

\* _send_request_and_parse yields an event; chat_completion forwards it
\* when the request is the last one
BuildEvent ==
    /\ sse.state = "open"
    /\ Len(sse.events) < MaxResponseEvents
    /\ \E e \in BuilderEvents :
          sse' = [sse EXCEPT
                    !.events = Append(@, e),
                    !.forwarded = IF sse.idx = sse.n - 1
                                  THEN Append(@, <<sse.idx + 1, e>>)
                                  ELSE @]
    /\ UNCHANGED <<objs, pool, current_index, files, pendingSaves, now, reqs,
                   batch, settings, budget>>

\* the response is exhausted: _send_request_and_parse stores the first
\* conversation id, the split loop stores the last one and goes on to its
\* next request
BuildResponseEnd ==
    /\ sse.state = "open"
    /\ LET inits == SelectSeq(sse.events, LAMBDA e : e[1] = "init")
           b == [sse EXCEPT
                   !.active_task_id =
                      IF inits = <<>> THEN @
                      ELSE IF sse.n > 1 THEN inits[Len(inits)][2]
                      ELSE inits[1][2]]
       IN  sse' = IF sse.idx < sse.n - 1 THEN Send(b, sse.idx + 1)
                  ELSE [b EXCEPT !.state = "done"]
    /\ UNCHANGED <<objs, pool, current_index, files, pendingSaves, now, reqs,
                   batch, settings, budget>>

\* one call of chat_completion, the rest of the server at rest
InitBuilder ==
    /\ StartUp({[strategy |-> "round-robin", retry_429_interval |-> 1,
                 split |-> FALSE]},
               {BlockedDirectory},
               {[request |-> 0, admin |-> 0, fault |-> 0, tick |-> 0,
                 overlap |-> 1]})
    /\ sse \in {NewBuilder(messages, model, disable, cfg, task_id) :
                   messages \in Dialogs, model \in Models,
                   disable \in BOOLEAN, cfg \in BuilderSettings,
                   task_id \in TaskIds}

NextBuilder ==
    \/ BuildFirst
    \/ BuildEvent
    \/ BuildResponseEnd

SpecBuilder == InitBuilder /\ [][NextBuilder]_vars

\* ------------------------------------------------------------------- C31
\* the lines of a query: its pieces other than the separators
Lines(query) == SelectSeq(query, LAMBDA piece : piece # Sep)

\* a dialog as OpenAI clients send it: it opens with a user message, ends
\* with a user or tool message, and every tool message answers, once, a
\* tool call of the assistant message it follows
WellFormedDialog(messages) ==
    /\ messages[1].role = "user"
    /\ messages[Len(messages)].role \in {"user", "tool"}
    /\ \A i \in DOMAIN messages :
          messages[i].role = "tool"
          => \E a \in 1 .. (i - 1) :
                /\ messages[a].role = "assistant"
                /\ \E k \in DOMAIN messages[a].tool_calls :
                      messages[a].tool_calls[k].id = messages[i].tool_call_id
                /\ \A j \in (a + 1) .. (i - 1) :
                      /\ messages[j].role = "tool"
                      /\ messages[j].tool_call_id # messages[i].tool_call_id

\* the line of each message occurs in lines, in the order of the messages
RECURSIVE Folded(_, _)
Folded(messages, lines) ==
    IF messages = <<>> THEN TRUE
    ELSE IF lines = <<>> THEN FALSE
    ELSE IF Head(lines) \in {ContextPart(Head(messages), TRUE),
                             ContextPart(Head(messages), FALSE)}
    THEN Folded(Tail(messages), Tail(lines))
    ELSE Folded(messages, Tail(lines))

\* C31: in continuation and tool-result modes, when the caps do not cut the
\* dialog, every user, assistant and tool message of the client's dialog
\* appears as its `User:` / `Assistant:` / `Tool result (<id>):` line of
\* the synthesized query, in the order of the dialog; no user message and
\* no tool result is dropped.
C31_HistoryFolded ==
    (/\ sse.state \in {"open", "done"}
     /\ sse.n = 1
     /\ sse.requests[1].mode = "history"
     /\ WellFormedDialog(sse.messages)
     /\ Len(sse.messages) <= sse.cfg.max_history_messages
     /\ Len(sse.messages) <= sse.cfg.max_tool_results)
    => Folded(sse.messages, Lines(sse.requests[1].query))

\* ------------------------------------------------------------------- C32
\* C32: every upstream request built in continuation mode (history present,
\* or a task id given, or tool results present) carries
\* is_new_conversation false; only a request built from the template in
\* new-conversation mode carries is_new_conversation true.
C32_ModeFlag ==
    \A i \in DOMAIN sse.requests :
        /\ sse.requests[i].mode = "history"
              => ~sse.requests[i].is_new_conversation
        /\ sse.requests[i].is_new_conversation
              => sse.requests[i].mode = "template"

\* ------------------------------------------------------------------- C33
\* C33: when disable_warp_tools is configured, the serialized upstream
\* request holds no settings.supported_tools and no
\* settings.client_supported_tools entry, in each construction mode and
\* for every user query text.
C33_ToolsStripped ==
    sse.disable_warp_tools
    => \A i \in DOMAIN sse.requests :
          /\ sse.requests[i].supported_tools = <<>>
          /\ sse.requests[i].client_supported_tools = <<>>

\* ------------------------------------------------------------------- C40
\* C40: the model selected in the upstream request follows the model of the
\* client request in every construction mode: the same call made with
\* another model builds a first request with another settings.model_config
\* base.
C40_ModelFollowsRequest ==
    (sse.state = "open" /\ sse.idx = 0)
    => \A model \in Models \ {sse.model} :
          NextRequest([sse EXCEPT !.model = model], 0).base
             # sse.requests[1].base

\* ------------------------------------------------------------------- C34
\* lines is p followed by at least one more line, the first of which is the
\* line of one of the tool results
ExtendsByResult(p, lines, results) ==
    /\ Len(lines) > Len(p)
    /\ SubSeq(lines, 1, Len(p)) = p
    /\ \E k \in DOMAIN results :
          lines[Len(p) + 1] = ContextPart(results[k], FALSE)

SplitHolds(b) ==
    /\ b.state = "done" => Len(b.requests) = Len(b.results)
    /\ Len(b.requests) = b.idx + 1
    /\ \A i \in 1 .. (Len(b.requests) - 1) :
          ExtendsByResult(Lines(b.requests[i].query),
                          Lines(b.requests[i + 1].query), b.results)
    /\ \A k \in DOMAIN b.forwarded : b.forwarded[k][1] = Len(b.results)
    /\ b.idx = b.n - 1
          => b.events = [k \in DOMAIN b.forwarded |-> b.forwarded[k][2]]

\* C34: with split_toolcall_result true and n > 1 tool results, the client
\* emits exactly n upstream requests in order, the history folded into
\* request i+1 strictly extends that of request i by one more tool result,
\* only the events of the n-th response are forwarded, and each request
\* after the first is built with the conversation id of the init event of
\* the response before it.
C34_SplitToolResults ==
    [][(/\ sse'.state \in {"open", "done"}
        /\ sse'.cfg.split_toolcall_result
        /\ Len(sse'.results) > 1)
       => /\ SplitHolds(sse')
          /\ (sse.state = "open" /\ sse'.idx = sse.idx + 1
              /\ \E k \in DOMAIN sse.events : sse.events[k][1] = "init")
             => \E k \in DOMAIN sse.events :
                   /\ sse.events[k][1] = "init"
                   /\ sse'.task_ids[sse'.idx + 1] = sse.events[k][2]]_vars
====
